---- MODULE Spec2Model ----
(***************************************************************************)
(* Model of the kick-chat-logger ingestion supervisor:                     *)
(*   - KickChatLogger (src/src/cli.py): the registry of supervisor tasks   *)
(*     and cancellation events, start/stop/pause/resume/add/shutdown, and  *)
(*     the retry loop _scrape_channel_with_retry;                          *)
(*   - listen_to_chat (src/src/kick_chat_listener.py): one session         *)
(*     attempt: lookup, connect, subscribe, keepalive, receive, store.     *)
(* asyncio runs one coroutine at a time and switches only at an await that *)
(* really suspends, so every action below is the code between two          *)
(* suspension points.                                                      *)
(***************************************************************************)
EXTENDS Integers, Sequences, FiniteSets, TLC

\* Channel names the CLI user types.
Names == {"foo", "bar"}

\* Bounds of the exploration (not program constants).
MaxTasks == 2   \* supervisor tasks created in one run of the process
MaxFails == 1   \* failures (exceptions, closures, ping timeouts) the environment injects
MaxMsgs == 2    \* messages received while the sessions' output is recorded
MaxNameLen == 3 \* characters of the channel names sanitize_channel_name is tried on

\* Program constants.
max_retries == 10
max_connection_retries == 50
max_ping_failures == 3
StopGrace == 5
RecvTimeout == 1
ping_timeout == 30
AbnormalClosure == 1006
NormalClosure == 1000
ServerRestart == 4200
InternalError == 1011
base_delay == 2
connection_base_delay == 1
MaxSevereDelay == 30
SevereRampLimit == 10
MaxExponent == 8

\* The close codes the supervisor puts on the capped ("severe") backoff track.
SevereCodes == {ServerRestart, InternalError}

\* rcvd close frame of a ConnectionClosed raised by the transport: 0 stands
\* for None (the connection dropped without a close frame).
None == 0
RcvdCodes == {None, NormalClosure, ServerRestart, InternalError}

TaskIds == 1..MaxTasks
Unlimited == 0 - 1

VARIABLES
    running,        \* KickChatLogger.running
    active_tasks,   \* KickChatLogger.active_tasks: dict name -> task, as a sequence
                    \* of <<name, task id>> in insertion order
    stop_events,    \* KickChatLogger.stop_events: dict name -> event (event k is the
                    \* one created together with task k)
    event_set,      \* event_set[k]: asyncio.Event k is set
    tasks,          \* tasks[k]: the supervisor coroutine of task k and the session
                    \* attempt it is running
    storage,        \* the channels table: name -> "absent" | "active" | "paused"
    cli,            \* the main coroutine: main() / run_cli() / the command in progress
    budget,         \* failures the environment may still inject (Unlimited: no bound)
    chat            \* what the sessions wrote: the overflow file and the calls of
                    \* storage.store_event, recorded while chat.watch holds

vars == <<running, active_tasks, stop_events, event_set, tasks, storage, cli, budget, chat>>

----------------------------------------------------------------------------
\* Python dicts, with their insertion order.

Keys(d) == {d[i][1] : i \in DOMAIN d}
HasKey(d, k) == \E i \in DOMAIN d : d[i][1] = k
Get(d, k) == IF HasKey(d, k) THEN d[CHOOSE i \in DOMAIN d : d[i][1] = k][2] ELSE None
Put(d, k, v) ==
    IF HasKey(d, k)
    THEN [i \in DOMAIN d |-> IF d[i][1] = k THEN <<k, v>> ELSE d[i]]
    ELSE Append(d, <<k, v>>)
Del(d, k) == SelectSeq(d, LAMBDA p : p[1] # k)
KeyList(d) == [i \in DOMAIN d |-> d[i][1]]

----------------------------------------------------------------------------
\* Supervisor tasks.

NoTaskRec ==
    [pc |-> "none", chan |-> "", retry_count |-> 0, connection_retry_count |-> 0,
     attempts |-> 0, ws_open |-> FALSE, consecutive_ping_failures |-> 0, exit |-> "",
     delay |-> 0, cycled |-> FALSE, event |-> "None", seq |-> 0, ping_due |-> FALSE]

\* In a task record: retry_count, connection_retry_count and delay are the
\* supervisor's locals, consecutive_ping_failures is the session's; delay is
\* kept while the backoff wait that uses it lasts.  attempts counts the calls of
\* listen_to_chat of the lifetime, and cycled, recorded like the sessions'
\* output while chat.watch holds, tells that the current attempt (or the one
\* that just failed) handled at least one message to the end.  event is the
\* KickEvent the session is about to store and seq, recorded like cycled, the
\* place of its message among the messages received.  ping_due stands for the
\* session's keepalive clock: current_time - last_ping_time > ping_interval
\* holds at the session's last reading of the time.

\* An exit that leaves the connection as it was.
Finished_LeavesOpen(t, how, why) ==
    [NoTaskRec EXCEPT !.pc = how, !.chan = t.chan, !.exit = why, !.attempts = t.attempts,
                      !.ws_open = t.ws_open]

\* The coroutine has ended (how: "done" or "cancelled"); why tells where it
\* left, as its log lines do.  Its locals are gone and the connection, if any,
\* was closed on the way out of the async with; attempts, the number of
\* session attempts of the lifetime, is kept for the record.
Finished(t, how, why) ==
    [NoTaskRec EXCEPT !.pc = how, !.chan = t.chan, !.exit = why, !.attempts = t.attempts]

IsFinished(t) == t.pc \in {"done", "cancelled"}
IsLive(t) == t.pc \notin {"none", "done", "cancelled"}
Created == {k \in TaskIds : tasks[k].pc # "none"}


----------------------------------------------------------------------------
\* The exceptions listen_to_chat lets out.  A ConnectionClosed carries the
\* close frame received (rcvd) and the one sent (sent), None when there is none.

Closed(rcvd, sent) == [kind |-> "ConnectionClosed", rcvd |-> rcvd, sent |-> sent]

\* getattr(e, 'code', None): ConnectionClosed.code is the code of the frame
\* received, and the abnormal-closure code when no frame was received.
ErrorCode(e) == IF e.rcvd = None THEN AbnormalClosure ELSE e.rcvd

\* Delays are kept in units of 1/Scale second: 1.5 ** n is 3^n / 2^n, an exact
\* binary fraction for n <= MaxExponent.
Scale == 2 ^ MaxExponent
Min(a, b) == IF a <= b THEN a ELSE b
Bool(b) == IF b THEN "True" ELSE "False"

\* A generic delay capped like the severe one.
GenericDelay_Capped(r) == Min(base_delay * (2 ^ (r - 1)) * Scale, MaxSevereDelay * Scale)

\* delay = base_delay * (2 ** (retry_count - 1))
GenericDelay(r) == base_delay * (2 ^ (r - 1)) * Scale

\* delay = min(connection_base_delay * (1.5 ** min(connection_retry_count, 8)), 30)
\* while connection_retry_count <= 10, and 30 after that.
SevereDelay(c) ==
    IF c <= SevereRampLimit
    THEN Min(connection_base_delay * (3 ^ Min(c, MaxExponent))
                                   * (2 ^ (MaxExponent - Min(c, MaxExponent))),
             MaxSevereDelay * Scale)
    ELSE MaxSevereDelay * Scale

\* A generic track that allows one failure more.
OnException_LateLimit(t) ==
    LET r1 == t.retry_count + 1 IN
    IF r1 > max_retries + 1
    THEN Finished(t, "done", "max_retries")
    ELSE [t EXCEPT !.retry_count = r1, !.pc = "backoff", !.ws_open = FALSE,
                   !.delay = GenericDelay(r1)]

\* except Exception: the generic track.
OnException(t) ==
    LET r1 == t.retry_count + 1 IN
    IF r1 > max_retries
    THEN Finished(t, "done", "max_retries")
    ELSE [t EXCEPT !.retry_count = r1, !.pc = "backoff", !.ws_open = FALSE,
                   !.delay = GenericDelay(r1)]

\* The handler with >= in place of > in both budget tests.
OnConnectionClosed_OffByOne(t, e) ==
    LET c1 == t.connection_retry_count + 1
        r1 == t.retry_count + 1
    IN  IF ErrorCode(e) \in SevereCodes
        THEN IF c1 >= max_connection_retries
             THEN Finished(t, "done", "max_connection_retries")
             ELSE [t EXCEPT !.connection_retry_count = c1, !.pc = "backoff",
                            !.ws_open = FALSE, !.delay = SevereDelay(c1)]
        ELSE IF r1 >= max_retries
             THEN Finished(t, "done", "max_retries")
             ELSE [t EXCEPT !.connection_retry_count = c1, !.retry_count = r1,
                            !.pc = "backoff", !.ws_open = FALSE,
                            !.delay = GenericDelay(r1)]

\* The handler with no budget test on the severe track.
OnConnectionClosed_NoSevereLimit(t, e) ==
    LET c1 == IF t.connection_retry_count < max_connection_retries + 1
              THEN t.connection_retry_count + 1 ELSE t.connection_retry_count
        r1 == t.retry_count + 1
    IN  IF ErrorCode(e) \in SevereCodes
        THEN [t EXCEPT !.connection_retry_count = c1, !.pc = "backoff", !.ws_open = FALSE,
                       !.delay = SevereDelay(c1)]
        ELSE IF r1 > max_retries
             THEN Finished(t, "done", "max_retries")
             ELSE [t EXCEPT !.connection_retry_count = c1, !.retry_count = r1,
                            !.pc = "backoff", !.ws_open = FALSE,
                            !.delay = GenericDelay(r1)]

\* A handler whose severe track starts the generic count again.
OnConnectionClosed_ResetsGeneric(t, e) ==
    LET c1 == t.connection_retry_count + 1
        r1 == t.retry_count + 1
    IN  IF ErrorCode(e) \in SevereCodes
        THEN IF c1 > max_connection_retries
             THEN Finished(t, "done", "max_connection_retries")
             ELSE [t EXCEPT !.connection_retry_count = c1, !.retry_count = 0,
                            !.pc = "backoff", !.ws_open = FALSE, !.delay = SevereDelay(c1)]
        ELSE IF r1 > max_retries
             THEN Finished(t, "done", "max_retries")
             ELSE [t EXCEPT !.connection_retry_count = c1, !.retry_count = r1,
                            !.pc = "backoff", !.ws_open = FALSE,
                            !.delay = GenericDelay(r1)]

\* except websockets.exceptions.ConnectionClosed as e.
OnConnectionClosed(t, e) ==
    LET c1 == t.connection_retry_count + 1
        r1 == t.retry_count + 1
    IN  IF ErrorCode(e) \in SevereCodes
        THEN IF c1 > max_connection_retries
             THEN Finished(t, "done", "max_connection_retries")
             ELSE [t EXCEPT !.connection_retry_count = c1, !.pc = "backoff",
                            !.ws_open = FALSE, !.delay = SevereDelay(c1)]
        ELSE IF r1 > max_retries
             THEN Finished(t, "done", "max_retries")
             ELSE [t EXCEPT !.connection_retry_count = c1, !.retry_count = r1,
                            !.pc = "backoff", !.ws_open = FALSE,
                            !.delay = GenericDelay(r1)]

\* A supervisor that goes round its loop after a clean return.
OnReturn_NoBreak(t) == [t EXCEPT !.pc = "start", !.ws_open = FALSE]

\* listen_to_chat returned: both counters are reset and the loop is left.
OnReturn(t) == Finished(t, "done", "returned")

\* The head of the supervisor's while loop, and the part of listen_to_chat that
\* runs without suspending: the lookup (get_channel_info is a blocking call).
LookupOutcomes == {"ok", "no_id", "raise"}
\* A loop head that tests the stop event only.
LoopHead_IgnoresRunning(t, ev, run, lookup) ==
    IF ev
    THEN Finished(t, "done", "loop_exit")
    ELSE LET t1 == [t EXCEPT !.attempts = @ + 1, !.consecutive_ping_failures = 0,
                             !.delay = 0, !.cycled = FALSE, !.ping_due = FALSE] IN
         CASE lookup = "ok" -> [t1 EXCEPT !.pc = "connect"]
           [] lookup = "no_id" -> OnReturn(t1)
           [] OTHER -> OnException(t1)

LoopHead(t, ev, run, lookup) ==
    IF ev \/ ~run
    THEN Finished(t, "done", "loop_exit")
    ELSE LET t1 == [t EXCEPT !.attempts = @ + 1, !.consecutive_ping_failures = 0,
                             !.delay = 0, !.cycled = FALSE, !.ping_due = FALSE] IN
         CASE lookup = "ok" -> [t1 EXCEPT !.pc = "connect"]
           [] lookup = "no_id" -> OnReturn(t1)
           [] OTHER -> OnException(t1)

\* A session loop that does not look at the stop event.
SessionLoopHead_NoStopCheck(t, ev, due) ==
    [t EXCEPT !.ping_due = due, !.pc = IF due THEN "ping" ELSE "recv"]

\* The head of the session's while loop: the stop check, then the keepalive
\* check (due: more than ping_interval seconds have passed since
\* last_ping_time; a clock that was past the interval stays past it).
SessionLoopHead(t, ev, due) ==
    IF ev
    THEN OnReturn(t)
    ELSE [t EXCEPT !.ping_due = t.ping_due \/ due,
                   !.pc = IF t.ping_due \/ due THEN "ping" ELSE "recv"]

\* The session is left by an exception: its keepalive clock goes with it.
SessionLeft(t) == [t EXCEPT !.ping_due = FALSE]

\* A wait_for(pong_waiter, ping_timeout) that timed out: the closure raised at
\* the third failure, and before that last_ping_time = current_time.
OnPingTimeout(t) ==
    LET f1 == t.consecutive_ping_failures + 1 IN
    IF f1 >= max_ping_failures
    THEN OnConnectionClosed(SessionLeft([t EXCEPT !.consecutive_ping_failures = f1]),
                            Closed(None, InternalError))
    ELSE [t EXCEPT !.consecutive_ping_failures = f1, !.ping_due = FALSE, !.pc = "recv"]

\* A pong that leaves the failure counter as it was.
OnPong_KeepsCount(t) == [t EXCEPT !.ping_due = FALSE, !.pc = "recv"]

\* The pong came in time: last_ping_time = current_time and
\* consecutive_ping_failures = 0, then on to the receive.
OnPong(t) == [t EXCEPT !.consecutive_ping_failures = 0, !.ping_due = FALSE, !.pc = "recv"]

----------------------------------------------------------------------------
\* Messages (config.py and handle_websocket_message).

CHAT_MESSAGE_EVENT == "App\\Events\\ChatMessageEvent"
SUBSCRIPTION_EVENT == "App\\Events\\SubscriptionEvent"
USER_BANNED_EVENT == "App\\Events\\UserBannedEvent"
USER_UNBANNED_EVENT == "App\\Events\\UserUnbannedEvent"
MESSAGE_DELETED_EVENT == "App\\Events\\MessageDeletedEvent"
PINNED_MESSAGE_CREATED_EVENT == "App\\Events\\PinnedMessageCreatedEvent"
CHAT_MESSAGE_SENT_EVENT == "App\\Events\\ChatMessageSentEvent"
CHATROOM_UPDATED_EVENT == "App\\Events\\ChatroomUpdatedEvent"
STREAM_HOST_EVENT == "App\\Events\\StreamHostEvent"
PINNED_MESSAGE_DELETED_EVENT == "App\\Events\\PinnedMessageDeletedEvent"
CHATROOM_CLEAR_EVENT == "App\\Events\\ChatroomClearEvent"
POLL_UPDATE_EVENT == "App\\Events\\PollUpdateEvent"
POLL_DELETE_EVENT == "App\\Events\\PollDeleteEvent"
PUSHER_CONNECTION_ESTABLISHED_EVENT == "pusher:connection_established"
PUSHER_INTERNAL_SUBSCRIPTION_SUCCEEDED_EVENT == "pusher_internal:subscription_succeeded"

HANDLED_EVENTS ==
    {CHAT_MESSAGE_EVENT, SUBSCRIPTION_EVENT, USER_BANNED_EVENT, USER_UNBANNED_EVENT,
     MESSAGE_DELETED_EVENT, PINNED_MESSAGE_CREATED_EVENT, CHAT_MESSAGE_SENT_EVENT,
     CHATROOM_UPDATED_EVENT, STREAM_HOST_EVENT, PINNED_MESSAGE_DELETED_EVENT,
     CHATROOM_CLEAR_EVENT}

IGNORED_EVENTS ==
    {PUSHER_CONNECTION_ESTABLISHED_EVENT, PUSHER_INTERNAL_SUBSCRIPTION_SUCCEEDED_EVENT,
     POLL_UPDATE_EVENT, POLL_DELETE_EVENT}

\* message.get("event"): a name of config.py, a name that is in no set, or
\* Python's None when the envelope has no "event" field.
NoEvent == "None"
EventValues ==
    HANDLED_EVENTS \cup IGNORED_EVENTS
        \cup {"App\\Events\\GiftedSubscriptionsEvent", "pusher:pong", NoEvent}

\* A decoded envelope: its event field, and whether its data field, a string,
\* is itself valid JSON.
Messages ==
    {m \in [event : EventValues, data_ok : BOOLEAN] : m.event \in HANDLED_EVENTS \/ m.data_ok}

\* What one call does: the KickEvent returned (NoEvent for None), the lines it
\* appended to the overflow file, and whether it raised instead of returning.
Outcome(ev, lines, raised) == [event |-> ev, lines |-> lines, raised |-> raised]

\* parse_event: json.loads of the data string raises on undecodable data.
parse_event(m) ==
    IF m.event = NoEvent \/ ~m.data_ok
    THEN Outcome(NoEvent, <<>>, TRUE)
    ELSE Outcome(m.event, <<>>, FALSE)

\* A classifier that also writes ignored events to the overflow file.
handle_websocket_message_LogsIgnored(m) ==
    IF m.event \in HANDLED_EVENTS THEN parse_event(m) ELSE Outcome(NoEvent, <<m>>, FALSE)

\* A classifier that passes every event that is not ignored on to storage.
handle_websocket_message_ParsesAll(m) ==
    IF m.event \in IGNORED_EVENTS THEN Outcome(NoEvent, <<>>, FALSE) ELSE parse_event(m)

\* handle_websocket_message
handle_websocket_message(m) ==
    IF m.event \in IGNORED_EVENTS THEN Outcome(NoEvent, <<>>, FALSE)
    ELSE IF m.event \in HANDLED_EVENTS THEN parse_event(m)
    ELSE Outcome(NoEvent, <<m>>, FALSE)

\* What a call did, in one word.
Kind(o) ==
    IF o.raised THEN "raised"
    ELSE IF o.event # NoEvent THEN "handled"
    ELSE IF Len(o.lines) > 0 THEN "unhandled" ELSE "ignored"

\* The messages the exploration lets the server send: any message as the
\* first one whose handling is recorded, and otherwise one for each thing a
\* call can do.
WireSample ==
    {CHOOSE m \in Messages : Kind(handle_websocket_message(m)) = w :
        w \in {Kind(handle_websocket_message(m0)) : m0 \in Messages}}
Wire == IF chat.watch /\ chat.received = 0 THEN Messages ELSE WireSample

\* The record of the sessions' input and output: the number of messages
\* received and the last one, the lines of the overflow file, and the calls of
\* store_event as <<channel, event, result, seq>>, seq being the place of the
\* event's message among the messages received; and, for each connection
\* opened, the messages sent on it.
NoMessage == [event |-> NoEvent, data_ok |-> TRUE]
NoChat ==
    [watch |-> FALSE, received |-> 0, last |-> NoMessage, overflow_log |-> <<>>,
     store_calls |-> <<>>, sent |-> <<>>]
CanReceive == chat.watch => chat.received < MaxMsgs
Received(ch, m) == IF ch.watch THEN [ch EXCEPT !.received = @ + 1, !.last = m] ELSE ch
Appended(ch, lines) == IF ch.watch THEN [ch EXCEPT !.overflow_log = @ \o lines] ELSE ch
\* A storage that puts the newest call first.
StoreCalled_Prepends(ch, c, ev, res, seq) ==
    IF ch.watch THEN [ch EXCEPT !.store_calls = <<<<c, ev, res, seq>>>> \o @] ELSE ch

StoreCalled(ch, c, ev, res, seq) ==
    IF ch.watch THEN [ch EXCEPT !.store_calls = Append(@, <<c, ev, res, seq>>)] ELSE ch

Connected(ch) == IF ch.watch THEN [ch EXCEPT !.sent = Append(@, <<>>)] ELSE ch
Sent(ch, msg) ==
    IF ch.watch THEN [ch EXCEPT !.sent[Len(ch.sent)] = Append(@, msg)] ELSE ch

\* get_chatroom_id: data["chatroom"]["id"] of the channel's info, a JSON number.
ChatroomId == [n \in Names |-> IF n = "foo" THEN 12345 ELSE 7]

\* A subscribe message that names the channel, not its chatroom.
subscribe_to_chatroom_ByName(c) ==
    [event |-> "pusher:subscribe",
     data |-> [auth |-> "", channel |-> "chatrooms." \o c \o ".v2"]]

\* subscribe_to_chatroom: the message sent for channel c, whose lookup gave
\* ChatroomId[c]; the f-string formats the id in decimal.
subscribe_to_chatroom(c) ==
    [event |-> "pusher:subscribe",
     data |-> [auth |-> "", channel |-> "chatrooms." \o ToString(ChatroomId[c]) \o ".v2"]]

\* The failure budget of the exploration.
Spend == budget # 0 /\ budget' = (IF budget > 0 THEN budget - 1 ELSE budget)
Free == UNCHANGED budget

\* The coroutine of task k moves to t.  Its last lines drop the channel's
\* entries from both dicts; a step of the task stop is waiting for starts a new
\* suspension.
\* A cleanup that empties both dictionaries.
SupSetChat_ClearsAll(k, t, ch) ==
    /\ chat' = ch
    /\ tasks' = [tasks EXCEPT ![k] = t]
    /\ IF t.pc = "done"
       THEN /\ active_tasks' = <<>>
            /\ stop_events' = <<>>
       ELSE UNCHANGED <<active_tasks, stop_events>>
    /\ cli' = IF cli.pc = "stop_wait" /\ cli.task = k THEN [cli EXCEPT !.susp = 0] ELSE cli
    /\ UNCHANGED <<running, event_set, storage>>

\* A supervisor that ends without the cleanup.
SupSetChat_NoCleanup(k, t, ch) ==
    /\ chat' = ch
    /\ tasks' = [tasks EXCEPT ![k] = t]
    /\ cli' = IF cli.pc = "stop_wait" /\ cli.task = k THEN [cli EXCEPT !.susp = 0] ELSE cli
    /\ UNCHANGED <<running, active_tasks, stop_events, event_set, storage>>

SupSetChat(k, t, ch) ==
    /\ chat' = ch
    /\ tasks' = [tasks EXCEPT ![k] = t]
    /\ IF t.pc = "done"
       THEN /\ active_tasks' = Del(active_tasks, t.chan)
            /\ stop_events' = Del(stop_events, t.chan)
       ELSE UNCHANGED <<active_tasks, stop_events>>
    /\ cli' = IF cli.pc = "stop_wait" /\ cli.task = k THEN [cli EXCEPT !.susp = 0] ELSE cli
    /\ UNCHANGED <<running, event_set, storage>>

SupSet(k, t) == SupSetChat(k, t, chat)

\* The session has no event in hand any more.
Cleared(t) == [t EXCEPT !.event = NoEvent, !.seq = 0]

\* The session is through with a message: the next loop head.
AfterMessage(t, ev, due) ==
    SessionLoopHead([Cleared(t) EXCEPT !.cycled = chat.watch], ev, due)

\* A session that lets a failed store out as an exception.
OnStoreResult_Raises(t, success, ev, due) ==
    IF success THEN AfterMessage(t, ev, due) ELSE OnException(Cleared(t))

\* A session that goes from the store straight to the next receive.
OnStoreResult_ReceivesAgain(t, success, ev, due) == [Cleared(t) EXCEPT !.pc = "recv"]

\* success = await storage.store_event(...); if not success: logger.error(...)
OnStoreResult(t, success, ev, due) == AfterMessage(t, ev, due)

\* The task runs for the first time.
SupStart(k) ==
    /\ tasks[k].pc = "start"
    /\ \E lookup \in LookupOutcomes :
          /\ IF lookup = "raise" /\ ~event_set[k] /\ running THEN Spend ELSE Free
          /\ SupSet(k, LoopHead(tasks[k], event_set[k], running, lookup))

\* await websockets.connect(...)
SupConnect(k) ==
    /\ tasks[k].pc = "connect"
    /\ \/ Free /\ SupSetChat(k, [tasks[k] EXCEPT !.pc = "subscribe", !.ws_open = TRUE],
                                Connected(chat))
       \/ Spend /\ SupSet(k, OnException(tasks[k]))

\* await subscribe_to_chatroom(ws, chatroom_id), then the first loop head.
SupSubscribe(k) ==
    /\ tasks[k].pc = "subscribe"
    /\ \/ \E due \in BOOLEAN :
             Free /\ SupSetChat(k, SessionLoopHead(tasks[k], event_set[k], due),
                                Sent(chat, subscribe_to_chatroom(tasks[k].chan)))
       \/ \E rcvd \in RcvdCodes :
             Spend /\ SupSet(k, OnConnectionClosed(tasks[k], Closed(rcvd, None)))

\* await asyncio.wait_for(ws.recv(), timeout=1.0) and the handling of what came.
SupRecv(k) ==
    /\ tasks[k].pc = "recv"
    /\ \/ \E due \in BOOLEAN :     \* asyncio.TimeoutError: continue
             Free /\ SupSet(k, SessionLoopHead(tasks[k], event_set[k], due))
       \/ /\ CanReceive
          /\ \E m \in Wire, due \in BOOLEAN :
                LET o == handle_websocket_message(m) IN
                IF o.raised
                THEN Spend /\ SupSetChat(k, OnException(tasks[k]), Received(chat, m))
                ELSE /\ Free
                     /\ SupSetChat(k, IF o.event # NoEvent
                                      THEN [tasks[k] EXCEPT
                                              !.pc = "store", !.event = o.event,
                                              !.seq = Received(chat, m).received]
                                      ELSE AfterMessage(tasks[k], event_set[k], due),
                                   Appended(Received(chat, m), o.lines))
       \* json.loads(message_raw) raises, message.get fails on an envelope that
       \* is no object, or the overflow file cannot be written
       \/ Spend /\ SupSet(k, OnException(tasks[k]))
       \/ \E rcvd \in RcvdCodes :
             Spend /\ SupSet(k, OnConnectionClosed(tasks[k], Closed(rcvd, None)))

\* await storage.store_event(...): its result is only logged.
SupStore(k) ==
    /\ tasks[k].pc = "store"
    /\ \/ \E success \in BOOLEAN, due \in BOOLEAN :
             Free /\ SupSetChat(k, OnStoreResult(tasks[k], success, event_set[k], due),
                                StoreCalled(chat, tasks[k].chan, tasks[k].event,
                                            Bool(success), tasks[k].seq))
       \/ Spend /\ SupSetChat(k, OnException(Cleared(tasks[k])),
                               StoreCalled(chat, tasks[k].chan, tasks[k].event,
                                           "raised", tasks[k].seq))

\* await ws.ping() and the wait for the pong.
SupPing(k) ==
    /\ tasks[k].pc = "ping"
    /\ \/ Free /\ SupSet(k, OnPong(tasks[k]))
       \/ Spend /\ SupSet(k, OnPingTimeout(tasks[k]))
       \/ \E rcvd \in RcvdCodes :
             Spend /\ SupSet(k, OnConnectionClosed(SessionLeft(tasks[k]), Closed(rcvd, None)))

\* await asyncio.wait_for(stop_event.wait(), timeout=delay) ends: by the event
\* (break), or by the timeout (pass, and the while loop goes round).
SupBackoffEnd(k) ==
    /\ tasks[k].pc = "backoff"
    /\ IF event_set[k]
       THEN Free /\ SupSet(k, Finished(tasks[k], "done", "stop_in_backoff"))
       ELSE \E lookup \in LookupOutcomes :
               /\ IF lookup = "raise" /\ running THEN Spend ELSE Free
               /\ SupSet(k, LoopHead(tasks[k], event_set[k], running, lookup))

SupStep(k) ==
  /\ cli.pc # "ended"
  /\
    \/ SupStart(k)
    \/ SupConnect(k)
    \/ SupSubscribe(k)
    \/ SupRecv(k)
    \/ SupStore(k)
    \/ SupPing(k)
    \/ SupBackoffEnd(k)


----------------------------------------------------------------------------
\* Channel names in the database (sanitize_channel_name and the operations of
\* KickChatStorage that take a channel name).  A name is a sequence of
\* characters; a character outside ASCII is written by its code point.

CHANNEL_TABLE_PREFIX == "kickchat_"

Chars ==
    {"F", "B", "f", "b", "o", "a", "r", "i", "0", "_", " ", "\t", ".",
     "U+00C9", "U+00E9", "U+0130", "U+0307"}

\* str.lower() of one character: E acute, and I with dot above, whose lowercase
\* is two characters (i and the combining dot).
LowerOf(ch) ==
    CASE ch = "F" -> <<"f">>
      [] ch = "B" -> <<"b">>
      [] ch = "U+00C9" -> <<"U+00E9">>
      [] ch = "U+0130" -> <<"i", "U+0307">>
      [] OTHER -> <<ch>>

RECURSIVE lower(_)
lower(s) == IF Len(s) = 0 THEN <<>> ELSE LowerOf(Head(s)) \o lower(Tail(s))

Whitespace == {" ", "\t"}
RECURSIVE lstrip(_)
lstrip(s) == IF Len(s) > 0 /\ Head(s) \in Whitespace THEN lstrip(Tail(s)) ELSE s
RECURSIVE rstrip(_)
rstrip(s) ==
    IF Len(s) > 0 /\ s[Len(s)] \in Whitespace THEN rstrip(SubSeq(s, 1, Len(s) - 1)) ELSE s
strip(s) == rstrip(lstrip(s))

\* re.sub(r"[^a-zA-Z0-9_]", "_", s)
WordChars == {"F", "B", "f", "b", "o", "a", "r", "i", "0", "_"}
re_sub(s) == [i \in DOMAIN s |-> IF s[i] \in WordChars THEN s[i] ELSE "_"]

\* A sanitizer that keeps the case of the name.
sanitize_channel_name_NoLower(name) == re_sub(strip(name))

sanitize_channel_name(name) == re_sub(strip(lower(name)))

get_channel_table_name(channel_name) ==
    <<CHANNEL_TABLE_PREFIX>> \o sanitize_channel_name(channel_name)

\* The names the operations are called with: every name of up to MaxNameLen
\* characters of Alphabet, and "Foo_Bar".
Alphabet == {"F", "f", "o", "0", "_", " ", ".", "U+00C9", "U+0130"}
Foo_Bar == <<"F", "o", "o", "_", "B", "a", "r">>
foo_bar == <<"f", "o", "o", "_", "b", "a", "r">>
TypedNames == UNION {[1..n -> Alphabet] : n \in 0..MaxNameLen} \cup {Foo_Bar}

\* In this part storage holds the rows of the channels table under their name
\* column: name -> "active" | "paused".
HasRow(db, key) == key \in DOMAIN db
WithRow(db, key, st) == [k \in DOMAIN db \cup {key} |-> IF k = key THEN st ELSE db[k]]

\* One call of an operation: the name it was given, the values it used for the
\* name column and the tables it named in its SQL, its result and the rows
\* after it.  ok: no statement of the call met an sqlite3.Error.
StorageCall(op, name, keys, tables, result, db) ==
    [op |-> op, name |-> name, keys |-> keys, tables |-> tables, result |-> result,
     db |-> db]
NoCall == [op |-> "-", name |-> <<>>, keys |-> {}, tables |-> {}, result |-> "-"]

channel_exists(db, channel_name, ok) ==
    LET normalized_name == sanitize_channel_name(channel_name) IN
    StorageCall("channel_exists", channel_name, {normalized_name}, {},
                Bool(ok /\ HasRow(db, normalized_name)), db)

\* Its db field is unused; result "True" stands for the normalized name being
\* returned and "False" for None.
validate_and_normalize_channel(db, channel_name, ok) ==
    LET normalized_name == sanitize_channel_name(channel_name)
        e == channel_exists(db, normalized_name, ok)
    IN  StorageCall("_validate_and_normalize_channel", normalized_name,
                    {normalized_name} \cup e.keys, {}, e.result, db)

add_channel(db, channel_name, ok) ==
    LET normalized_name == sanitize_channel_name(channel_name) IN
    IF ok /\ ~HasRow(db, normalized_name)
    THEN StorageCall("add_channel", channel_name, {normalized_name},
                     {get_channel_table_name(normalized_name)}, "True",
                     WithRow(db, normalized_name, "active"))
    ELSE StorageCall("add_channel", channel_name, {normalized_name}, {}, "False", db)

store_event(db, channel_name, ok) ==
    LET v == validate_and_normalize_channel(db, channel_name, ok) IN
    IF v.result = "True"
    THEN StorageCall("store_event", channel_name, v.keys,
                     {get_channel_table_name(v.name)}, Bool(ok), db)
    ELSE StorageCall("store_event", channel_name, v.keys, {}, "False", db)

pause_channel(db, channel_name, ok) ==
    LET v == validate_and_normalize_channel(db, channel_name, ok) IN
    IF v.result = "True" /\ ok
    THEN StorageCall("pause_channel", channel_name, v.keys \cup {v.name}, {}, "True",
                     WithRow(db, v.name, "paused"))
    ELSE StorageCall("pause_channel", channel_name, v.keys, {}, "False", db)

resume_channel(db, channel_name, ok) ==
    LET v == validate_and_normalize_channel(db, channel_name, ok) IN
    IF v.result = "True" /\ ok
    THEN StorageCall("resume_channel", channel_name, v.keys \cup {v.name}, {}, "True",
                     WithRow(db, v.name, "active"))
    ELSE StorageCall("resume_channel", channel_name, v.keys, {}, "False", db)

----------------------------------------------------------------------------
\* The registry operations of KickChatLogger.

Reg == [active_tasks |-> active_tasks, stop_events |-> stop_events,
        event_set |-> event_set, tasks |-> tasks, log |-> "-"]

SetReg(r) ==
    /\ active_tasks' = r.active_tasks
    /\ stop_events' = r.stop_events
    /\ event_set' = r.event_set
    /\ tasks' = r.tasks

NextId(r) == Cardinality({k \in TaskIds : r.tasks[k].pc # "none"}) + 1

\* start_channel_scraping without its membership test.
StartChannelScraping_NoCheck(r, c) ==
    LET k == NextId(r) IN
    IF k > MaxTasks
    THEN [r EXCEPT !.log = "already"]
    ELSE [active_tasks |-> Put(r.active_tasks, c, k),
          stop_events |-> Put(r.stop_events, c, k),
          event_set |-> [r.event_set EXCEPT ![k] = FALSE],
          tasks |-> [r.tasks EXCEPT ![k] = [NoTaskRec EXCEPT !.pc = "start", !.chan = c]],
          log |-> "started"]

\* start_channel_scraping: the registry after the call, and the line it logged
\* ("already": the warning of the early return; "started").  Both paths return
\* True.
StartChannelScraping(r, c) ==
    IF HasKey(r.active_tasks, c)
    THEN [r EXCEPT !.log = "already"]
    ELSE LET k == NextId(r) IN
         [active_tasks |-> Put(r.active_tasks, c, k),
          stop_events |-> Put(r.stop_events, c, k),
          event_set |-> [r.event_set EXCEPT ![k] = FALSE],
          tasks |-> [r.tasks EXCEPT ![k] = [NoTaskRec EXCEPT !.pc = "start", !.chan = c]],
          log |-> "started"]

\* The exploration creates at most MaxTasks tasks.
CanStart(r, c) == HasKey(r.active_tasks, c) \/ NextId(r) <= MaxTasks

\* for channel_name in active_channels: await self.start_channel_scraping(...)
RECURSIVE StartAll(_, _)
StartAll(r, list) ==
    IF Len(list) = 0 THEN r ELSE StartAll(StartChannelScraping(r, Head(list)), Tail(list))

RECURSIVE CanStartAll(_, _)
CanStartAll(r, list) ==
    \/ Len(list) = 0
    \/ /\ Len(list) > 0
       /\ CanStart(r, Head(list))
       /\ CanStartAll(StartChannelScraping(r, Head(list)), Tail(list))

\* The rows a SELECT without ORDER BY returns, in any order.
Orderings(S) ==
    {q \in UNION {[1..n -> S] : n \in {Cardinality(S)}} :
        \A i, j \in DOMAIN q : i # j => q[i] # q[j]}

\* A query that also returns the paused channels.
ActiveChannels_All == {n \in Names : storage[n] # "absent"}

\* SELECT name FROM channels WHERE paused = 0
ActiveChannels == {n \in Names : storage[n] = "active"}

\* get_active_channels: the rows, or [] when the query fails.
ActiveReports == Orderings(ActiveChannels) \cup {<<>>}

\* The results of the last command: what the last start_channel_scraping it
\* called returned and logged, what the stop_channel_scraping(chan) it called
\* returned or raised ("-" when it called none), its own result, and for
\* resume_all_channels the list get_all_channels returned and what each
\* resume_channel it called returned, in the order of the calls.
NoResults ==
    [start |-> "-", log |-> "-", stop |-> "-", chan |-> "", cmd |-> "-",
     listed |-> <<>>, resumed |-> <<>>]

CliIdle(res) ==
    [pc |-> "idle", op |-> "-", chan |-> "", task |-> None, todo |-> <<>>,
     elapsed |-> 0, susp |-> 0, last |-> res]

\* load_and_start_active_channels, get_active_channels having returned list.
LoadAndStart(list) ==
    /\ CanStartAll(Reg, list)
    /\ SetReg(StartAll(Reg, list))
    /\ cli' = CliIdle([NoResults EXCEPT
                          !.start = IF Len(list) = 0 THEN "-" ELSE "True",
                          !.log = StartAll(Reg, list).log])
    /\ UNCHANGED <<running, storage, budget, chat>>

LoadAndStartActiveChannels == \E list \in ActiveReports : LoadAndStart(list)

\* main(): initialize, then load_and_start_active_channels, then run_cli.
Boot ==
    /\ cli.pc = "boot"
    /\ LoadAndStartActiveChannels

\* "resume" without an argument.
ResumeAll ==
    /\ cli.pc = "idle" /\ running
    /\ LoadAndStartActiveChannels

\* list_channels: "SCRAPING" if channel["name"] in self.active_tasks.
Scraping(c) == HasKey(active_tasks, c)

\* add_channel
AddChannel(c) ==
    /\ cli.pc = "idle" /\ running
    /\ UNCHANGED <<running, budget, chat>>
    /\ IF storage[c] # "absent"
       THEN /\ cli' = CliIdle([NoResults EXCEPT !.cmd = "True"])
            /\ UNCHANGED <<active_tasks, stop_events, event_set, tasks, storage>>
       ELSE \E found \in BOOLEAN, stored \in BOOLEAN :
               IF found /\ stored
               THEN /\ CanStart(Reg, c)
                    /\ storage' = [storage EXCEPT ![c] = "active"]
                    /\ SetReg(StartChannelScraping(Reg, c))
                    /\ cli' = CliIdle([NoResults EXCEPT
                                          !.start = "True", !.cmd = "True",
                                          !.log = StartChannelScraping(Reg, c).log])
               ELSE /\ cli' = CliIdle([NoResults EXCEPT !.cmd = "False"])
                    /\ UNCHANGED <<active_tasks, stop_events, event_set, tasks, storage>>

\* resume_channel
ResumeChannel(c) ==
    /\ cli.pc = "idle" /\ running
    /\ UNCHANGED <<running, budget, chat>>
    /\ \E ok \in BOOLEAN :
          IF ok /\ storage[c] # "absent"
          THEN /\ CanStart(Reg, c)
               /\ storage' = [storage EXCEPT ![c] = "active"]
               /\ SetReg(StartChannelScraping(Reg, c))
               /\ cli' = CliIdle([NoResults EXCEPT
                                     !.start = "True", !.cmd = "True",
                                     !.log = StartChannelScraping(Reg, c).log])
          ELSE /\ cli' = CliIdle([NoResults EXCEPT !.cmd = "False"])
               /\ UNCHANGED <<active_tasks, stop_events, event_set, tasks, storage>>

\* resume_all_channels, a method no command calls.  get_all_channels returns
\* every name of the table, or [] when the query fails; outcome[i] is what the
\* i-th call of resume_channel does: it resumes the channel and starts it
\* ("ok"), storage refuses and it returns False ("refused"), or it raises,
\* which ends the loop in the except clause.
AllReports == Orderings({n \in Names : storage[n] # "absent"}) \cup {<<>>}
ResumeOutcomes == {"ok", "refused", "raise"}
Range(q) == {q[i] : i \in DOMAIN q}

\* What the calls of one run do: the calls after a raising one are not made,
\* and are given the same outcome.
CallOutcomes(list) ==
    {o \in [DOMAIN list -> ResumeOutcomes] :
        \A i, j \in DOMAIN list : (i < j /\ o[i] = "raise") => o[j] = "raise"}

\* A loop that a False from resume_channel ends too.
Attempted_StopsAtRefusal(list, outcome) ==
    Cardinality({i \in DOMAIN list : \A j \in 1..i : outcome[j] = "ok"})

\* The number of calls of resume_channel that returned.
Attempted(list, outcome) ==
    Cardinality({i \in DOMAIN list : \A j \in 1..i : outcome[j] # "raise"})

\* The channels of list[1..n] that were resumed, in the order of the calls.
RECURSIVE ResumedOf(_, _, _)
ResumedOf(list, outcome, n) ==
    IF n = 0 THEN <<>>
    ELSE IF outcome[n] = "ok"
         THEN Append(ResumedOf(list, outcome, n - 1), list[n])
         ELSE ResumedOf(list, outcome, n - 1)

ResumeAllChannels(list, outcome) ==
    /\ cli.pc = "idle" /\ running
    /\ LET n == Attempted(list, outcome)
           ok == ResumedOf(list, outcome, n)
       IN  /\ CanStartAll(Reg, ok)
           /\ SetReg(StartAll(Reg, ok))
           /\ storage' = [c \in Names |-> IF c \in Range(ok) THEN "active" ELSE storage[c]]
           /\ cli' = CliIdle([NoResults EXCEPT
                                 !.start = IF Len(ok) = 0 THEN "-" ELSE "True",
                                 !.log = StartAll(Reg, ok).log,
                                 !.cmd = Bool(\A i \in DOMAIN list : outcome[i] # "raise"),
                                 !.listed = list,
                                 !.resumed = [i \in 1..n |->
                                                 <<list[i], Bool(outcome[i] = "ok")>>]])
    /\ UNCHANGED <<running, budget, chat>>

----------------------------------------------------------------------------
\* stop_channel_scraping and its callers.

\* if channel_name in self.stop_events: self.stop_events[channel_name].set()
StopSignal(c) ==
    IF HasKey(stop_events, c)
    THEN [event_set EXCEPT ![Get(stop_events, c)] = TRUE]
    ELSE event_set

\* if channel_name not in self.active_tasks: ... return False
NotScrapingResult_True(c) == IF HasKey(active_tasks, c) THEN "-" ELSE "True"
NotScrapingResult(c) == IF HasKey(active_tasks, c) THEN "-" ELSE "False"

\* A backoff wait that does not watch the stop event.
SuspBound_Sleep(k) ==
    CASE tasks[k].pc = "start" -> 0
      [] tasks[k].pc = "recv" -> RecvTimeout
      [] tasks[k].pc = "ping" -> ping_timeout
      [] OTHER -> StopGrace + 1

\* The longest the await a task is suspended at can last, in seconds, once its
\* stop event is set; an await the code puts no timeout on has no bound.
NoBound == StopGrace + 1
SuspBound(k) ==
    CASE tasks[k].pc = "start" -> 0
      [] tasks[k].pc = "backoff" -> IF event_set[k] THEN 0 ELSE NoBound
      [] tasks[k].pc = "recv" -> RecvTimeout
      [] tasks[k].pc = "ping" -> ping_timeout
      [] OTHER -> NoBound

\* stop_channel_scraping(c) found c registered: it sets the event and waits for
\* the task, up to StopGrace seconds.
BeginWait(op, c, todo) ==
    /\ event_set' = StopSignal(c)
    /\ cli' = [pc |-> "stop_wait", op |-> op, chan |-> c, task |-> Get(active_tasks, c),
               todo |-> todo, elapsed |-> 0, susp |-> 0, last |-> NoResults]
    /\ UNCHANGED <<running, active_tasks, stop_events, tasks, storage, budget, chat>>

\* stop_channel_scraping(c) returned res to pause_channel or to shutdown.
AfterStopReturn(op, c, todo, res) ==
    /\ UNCHANGED <<running, budget, chat>>
    /\ IF op = "pause"
       THEN \E ok \in BOOLEAN :      \* storage.pause_channel
               IF ok /\ storage[c] # "absent"
               THEN /\ storage' = [storage EXCEPT ![c] = "paused"]
                    /\ cli' = CliIdle([NoResults EXCEPT !.stop = res, !.chan = c, !.cmd = "True"])
               ELSE /\ UNCHANGED storage
                    /\ cli' = CliIdle([NoResults EXCEPT !.stop = res, !.chan = c, !.cmd = "False"])
       ELSE IF op = "pause_typed"
       THEN \E ok \in BOOLEAN :      \* storage.pause_channel, by the name typed
               /\ storage' = pause_channel(storage, c, ok).db
               /\ cli' = CliIdle([NoResults EXCEPT !.stop = res, !.chan = c,
                                      !.cmd = pause_channel(storage, c, ok).result])
       ELSE /\ UNCHANGED storage
            /\ cli' = [CliIdle([NoResults EXCEPT !.stop = res, !.chan = c]) EXCEPT
                          !.pc = "shutdown", !.todo = Tail(todo)]

\* stop_channel_scraping(c) raised CancelledError: out of pause_channel it
\* reaches run_cli, which calls cleanup_and_exit and leaves its loop, and main
\* goes on to shutdown; out of shutdown it ends main.
AfterStopRaise(op, c) ==
    /\ running' = FALSE
    /\ UNCHANGED <<storage, budget, chat>>
    /\ cli' = IF op \in {"pause", "pause_typed"}
              THEN [CliIdle([NoResults EXCEPT !.stop = "CancelledError", !.chan = c,
                                              !.cmd = "CancelledError"])
                      EXCEPT !.pc = "shutdown", !.todo = KeyList(active_tasks)]
              ELSE [CliIdle([NoResults EXCEPT !.stop = "CancelledError", !.chan = c,
                                              !.cmd = "CancelledError"])
                      EXCEPT !.pc = "ended"]

\* pause_channel
PauseChannel(c) ==
    /\ cli.pc = "idle" /\ running
    /\ IF NotScrapingResult(c) = "-"
       THEN BeginWait("pause", c, <<>>)
       ELSE /\ AfterStopReturn("pause", c, <<>>, NotScrapingResult(c))
            /\ UNCHANGED <<active_tasks, stop_events, event_set, tasks>>

\* "exit" (or end of input): cleanup_and_exit, run_cli returns, and main's
\* finally calls shutdown, which takes list(self.active_tasks.keys()).
Exit ==
    /\ cli.pc = "idle" /\ running
    /\ running' = FALSE
    /\ cli' = [CliIdle(NoResults) EXCEPT !.pc = "shutdown", !.todo = KeyList(active_tasks)]
    /\ UNCHANGED <<active_tasks, stop_events, event_set, tasks, storage, budget, chat>>

\* One round of shutdown's loop, or its return.
ShutdownStep ==
    /\ cli.pc = "shutdown"
    /\ IF Len(cli.todo) = 0
       THEN /\ cli' = [CliIdle([cli.last EXCEPT !.cmd = "returned"]) EXCEPT !.pc = "ended"]
            /\ UNCHANGED <<running, active_tasks, stop_events, event_set, tasks,
                           storage, budget, chat>>
       ELSE IF NotScrapingResult(Head(cli.todo)) = "-"
            THEN BeginWait("shutdown", Head(cli.todo), cli.todo)
            ELSE /\ AfterStopReturn("shutdown", Head(cli.todo), cli.todo,
                                    NotScrapingResult(Head(cli.todo)))
                 /\ UNCHANGED <<active_tasks, stop_events, event_set, tasks>>

\* wait_for(task, 5.0) returns: the task has finished.
StopWaitDone ==
    /\ cli.pc = "stop_wait"
    /\ tasks[cli.task].pc = "done"
    /\ AfterStopReturn(cli.op, cli.chan, cli.todo, "True")
    /\ UNCHANGED <<active_tasks, stop_events, event_set, tasks>>

\* wait_for(task, 5.0) on a task that was cancelled raises CancelledError.
StopWaitCancelled ==
    /\ cli.pc = "stop_wait"
    /\ tasks[cli.task].pc = "cancelled"
    /\ AfterStopRaise(cli.op, cli.chan)
    /\ UNCHANGED <<active_tasks, stop_events, event_set, tasks>>

\* Time passes with the task still suspended: up to the bound of its await
\* or to the end of the grace period, whichever comes first.
Tick ==
    /\ cli.pc = "stop_wait"
    /\ IsLive(tasks[cli.task])
    /\ cli.elapsed < StopGrace
    /\ cli.susp < SuspBound(cli.task)
    /\ LET d == Min(SuspBound(cli.task) - cli.susp, StopGrace - cli.elapsed) IN
       cli' = [cli EXCEPT !.elapsed = @ + d, !.susp = @ + d]
    /\ UNCHANGED <<running, active_tasks, stop_events, event_set, tasks, storage, budget, chat>>

\* A stop that cancels without waiting.
GraceOver_NoWait == TRUE

\* The grace period is over.
GraceOver == cli.elapsed >= StopGrace

\* wait_for(task, 5.0) times out: it cancels the task and waits until the task
\* has ended.  CancelledError is no Exception, so the supervisor's handlers and
\* the lines after its loop do not run; the connection is closed by the async
\* with.  Then task.cancel() finds the task done and wait_for(task, 2.0) raises
\* the task's CancelledError.
StopTimeout ==
    /\ cli.pc = "stop_wait"
    /\ IsLive(tasks[cli.task])
    /\ GraceOver
    /\ tasks' = [tasks EXCEPT ![cli.task] = Finished(@, "cancelled", "CancelledError")]
    /\ AfterStopRaise(cli.op, cli.chan)
    /\ UNCHANGED <<active_tasks, stop_events, event_set>>

----------------------------------------------------------------------------
\* The commands as handle_command passes them on: channel_name = parts[1] goes
\* as typed to the registry (start_channel_scraping, stop_channel_scraping)
\* and to storage, which sanitizes it.  Here storage holds the rows of the
\* channels table, and the registry's keys are typed names.

Foo == <<"F", "o", "o">>
foo == <<"f", "o", "o">>
CommandNames == {Foo, foo}

\* add_channel(n)
AddTyped(n) ==
    /\ cli.pc = "idle" /\ running
    /\ UNCHANGED <<running, budget, chat>>
    /\ \E ok \in BOOLEAN, found \in BOOLEAN, stored \in BOOLEAN :
          IF channel_exists(storage, n, ok).result = "True"
          THEN /\ cli' = CliIdle([NoResults EXCEPT !.cmd = "True"])
               /\ UNCHANGED <<active_tasks, stop_events, event_set, tasks, storage>>
          ELSE IF found /\ add_channel(storage, n, stored).result = "True"
          THEN /\ CanStart(Reg, n)
               /\ storage' = add_channel(storage, n, stored).db
               /\ SetReg(StartChannelScraping(Reg, n))
               /\ cli' = CliIdle([NoResults EXCEPT
                                     !.start = "True", !.cmd = "True",
                                     !.log = StartChannelScraping(Reg, n).log])
          ELSE /\ cli' = CliIdle([NoResults EXCEPT !.cmd = "False"])
               /\ UNCHANGED <<active_tasks, stop_events, event_set, tasks, storage>>

\* resume_channel(n)
ResumeTyped(n) ==
    /\ cli.pc = "idle" /\ running
    /\ UNCHANGED <<running, budget, chat>>
    /\ \E ok \in BOOLEAN :
          IF resume_channel(storage, n, ok).result = "True"
          THEN /\ CanStart(Reg, n)
               /\ storage' = resume_channel(storage, n, ok).db
               /\ SetReg(StartChannelScraping(Reg, n))
               /\ cli' = CliIdle([NoResults EXCEPT
                                     !.start = "True", !.cmd = "True",
                                     !.log = StartChannelScraping(Reg, n).log])
          ELSE /\ cli' = CliIdle([NoResults EXCEPT !.cmd = "False"])
               /\ UNCHANGED <<active_tasks, stop_events, event_set, tasks, storage>>

\* pause_channel(n)
PauseTyped(n) ==
    /\ cli.pc = "idle" /\ running
    /\ IF NotScrapingResult(n) = "-"
       THEN BeginWait("pause_typed", n, <<>>)
       ELSE /\ AfterStopReturn("pause_typed", n, <<>>, NotScrapingResult(n))
            /\ UNCHANGED <<active_tasks, stop_events, event_set, tasks>>

\* "resume" without an argument: get_active_channels returns the name column
\* of the rows that are not paused, or [] when the query fails.
ActiveRows == {key \in DOMAIN storage : storage[key] = "active"}
ResumeAllTyped ==
    /\ cli.pc = "idle" /\ running
    /\ \E list \in Orderings(ActiveRows) \cup {<<>>} : LoadAndStart(list)

----------------------------------------------------------------------------
\* Calls of the storage operations by a caller that gives them any name.

\* The caller makes call c.
Called(c) ==
    /\ cli.pc = "storage"
    /\ storage' = c.db
    /\ cli' = [cli EXCEPT !.last = [NoCall EXCEPT !.op = c.op, !.name = c.name,
                                                  !.keys = c.keys, !.tables = c.tables,
                                                  !.result = c.result]]
    /\ UNCHANGED <<running, active_tasks, stop_events, event_set, tasks, budget, chat>>

StorageAddChannel(n, ok) == Called(add_channel(storage, n, ok))
StorageChannelExists(n, ok) == Called(channel_exists(storage, n, ok))
StorageStoreEvent(n, ok) == Called(store_event(storage, n, ok))
StoragePauseChannel(n, ok) == Called(pause_channel(storage, n, ok))
StorageResumeChannel(n, ok) == Called(resume_channel(storage, n, ok))

----------------------------------------------------------------------------
Init ==
    /\ running = TRUE
    /\ active_tasks = <<>>
    /\ stop_events = <<>>
    /\ event_set = [k \in TaskIds |-> FALSE]
    /\ tasks = [k \in TaskIds |-> NoTaskRec]
    /\ storage \in [Names -> {"absent", "active", "paused"}]
    /\ cli = [CliIdle(NoResults) EXCEPT !.pc = "boot"]
    /\ budget = MaxFails
    /\ chat = NoChat

Next ==
    \/ Boot
    \/ ResumeAll
    \/ \E c \in Names : AddChannel(c)
    \/ \E c \in Names : ResumeChannel(c)
    \/ \E c \in Names : PauseChannel(c)
    \/ Exit
    \/ ShutdownStep
    \/ StopWaitDone
    \/ StopWaitCancelled
    \/ Tick
    \/ StopTimeout
    \/ \E k \in TaskIds : SupStep(k)

Spec == Init /\ [][Next]_vars

\* One supervision lifetime with no bound on the failures: the channel is in
\* the database when the process starts and no command is given.
InitRetry ==
    /\ running = TRUE
    /\ active_tasks = <<>>
    /\ stop_events = <<>>
    /\ event_set = [k \in TaskIds |-> FALSE]
    /\ tasks = [k \in TaskIds |-> NoTaskRec]
    /\ storage = [n \in Names |-> IF n = "foo" THEN "active" ELSE "absent"]
    /\ cli = [CliIdle(NoResults) EXCEPT !.pc = "boot"]
    /\ budget = Unlimited
    /\ chat = NoChat

NextRetry ==
    \/ Boot
    \/ \E k \in TaskIds : SupStep(k)

SpecRetry == InitRetry /\ [][NextRetry]_vars

\* The same lifetime with the event loop's scheduling: a supervisor that can
\* take a step takes one (every wait of the supervisor and of the session has
\* a timeout, and the loop runs every task that is ready).
SpecRetryLive == SpecRetry /\ \A k \in TaskIds : WF_vars(SupStep(k))

\* The commands given with typed names, on a database that has no channel
\* yet: main() has found no active channel and run_cli reads commands.
InitTyped ==
    /\ running = TRUE
    /\ active_tasks = <<>>
    /\ stop_events = <<>>
    /\ event_set = [k \in TaskIds |-> FALSE]
    /\ tasks = [k \in TaskIds |-> NoTaskRec]
    /\ storage = <<>>
    /\ cli = CliIdle(NoResults)
    /\ budget = MaxFails
    /\ chat = NoChat

NextTyped ==
    \/ \E n \in CommandNames : AddTyped(n)
    \/ \E n \in CommandNames : ResumeTyped(n)
    \/ \E n \in CommandNames : PauseTyped(n)
    \/ ResumeAllTyped
    \/ Exit
    \/ ShutdownStep
    \/ StopWaitDone
    \/ StopWaitCancelled
    \/ Tick
    \/ StopTimeout
    \/ \E k \in TaskIds : SupStep(k)

SpecTyped == InitTyped /\ [][NextTyped]_vars

\* One supervision lifetime with the sessions' output recorded.
InitChat ==
    /\ running = TRUE
    /\ active_tasks = <<>>
    /\ stop_events = <<>>
    /\ event_set = [k \in TaskIds |-> FALSE]
    /\ tasks = [k \in TaskIds |-> NoTaskRec]
    /\ storage = [n \in Names |-> IF n = "foo" THEN "active" ELSE "absent"]
    /\ cli = [CliIdle(NoResults) EXCEPT !.pc = "boot"]
    /\ budget = MaxFails
    /\ chat = [NoChat EXCEPT !.watch = TRUE]

NextChat ==
    \/ Boot
    \/ \E k \in TaskIds : SupStep(k)

SpecChat == InitChat /\ [][NextChat]_vars

\* The process with its "resume" command and with resume_all_channels, on any
\* database of the two channels.
InitResumeAll ==
    /\ running = TRUE
    /\ active_tasks = <<>>
    /\ stop_events = <<>>
    /\ event_set = [k \in TaskIds |-> FALSE]
    /\ tasks = [k \in TaskIds |-> NoTaskRec]
    /\ storage \in [Names -> {"absent", "active", "paused"}]
    /\ cli = [CliIdle(NoResults) EXCEPT !.pc = "boot"]
    /\ budget = MaxFails
    /\ chat = NoChat

NextResumeAll ==
    \/ Boot
    \/ ResumeAll
    \/ \E list \in AllReports :
          \E outcome \in CallOutcomes(list) : ResumeAllChannels(list, outcome)
    \/ \E k \in TaskIds : SupStep(k)

SpecResumeAll == InitResumeAll /\ [][NextResumeAll]_vars

\* The registry of a logger that has created no task.
NoReg ==
    [active_tasks |-> <<>>, stop_events |-> <<>>, event_set |-> [k \in TaskIds |-> FALSE],
     tasks |-> [k \in TaskIds |-> NoTaskRec], log |-> "-"]

\* A supervisor of channel c in the backoff wait after the last failure one of
\* its budgets allows: max_retries generic failures, max_retries ordinary
\* closures, or max_connection_retries severe closures.
AtLimit(c) ==
    {[NoTaskRec EXCEPT !.pc = "backoff", !.chan = c, !.attempts = max_retries,
                       !.retry_count = max_retries,
                       !.delay = GenericDelay(max_retries)],
     [NoTaskRec EXCEPT !.pc = "backoff", !.chan = c, !.attempts = max_retries,
                       !.retry_count = max_retries,
                       !.connection_retry_count = max_retries,
                       !.delay = GenericDelay(max_retries)],
     [NoTaskRec EXCEPT !.pc = "backoff", !.chan = c, !.attempts = max_connection_retries,
                       !.connection_retry_count = max_connection_retries,
                       !.delay = SevereDelay(max_connection_retries)]}

\* Two channels started when the process began, no command given since: the
\* supervisor of "foo" has failed up to one of its limits and the supervisor
\* of "bar" has not run yet.
InitTwo ==
    LET r == StartAll(NoReg, <<"foo", "bar">>) IN
    /\ running = TRUE
    /\ active_tasks = r.active_tasks
    /\ stop_events = r.stop_events
    /\ event_set = r.event_set
    /\ tasks \in {[r.tasks EXCEPT ![Get(r.active_tasks, "foo")] = t] : t \in AtLimit("foo")}
    /\ storage = [n \in Names |-> "active"]
    /\ cli = CliIdle([NoResults EXCEPT !.start = "True", !.log = "started"])
    /\ budget = MaxFails
    /\ chat = NoChat

NextTwo == \E k \in TaskIds : SupStep(k)

SpecTwo == InitTwo /\ [][NextTwo]_vars

\* The storage operations, called in any order with one of the typed names
\* (cli.chan) on a database with no channel yet.
InitSanitize ==
    /\ running = TRUE
    /\ active_tasks = <<>>
    /\ stop_events = <<>>
    /\ event_set = [k \in TaskIds |-> FALSE]
    /\ tasks = [k \in TaskIds |-> NoTaskRec]
    /\ storage = <<>>
    /\ cli \in {[CliIdle(NoCall) EXCEPT !.pc = "storage", !.chan = n] : n \in TypedNames}
    /\ budget = MaxFails
    /\ chat = NoChat

NextSanitize ==
    \E ok \in BOOLEAN :
        \/ StorageAddChannel(cli.chan, ok)
        \/ StorageChannelExists(cli.chan, ok)
        \/ StorageStoreEvent(cli.chan, ok)
        \/ StoragePauseChannel(cli.chan, ok)
        \/ StorageResumeChannel(cli.chan, ok)

SpecSanitize == InitSanitize /\ [][NextSanitize]_vars

TypeOK ==
    /\ running \in BOOLEAN
    /\ \A k \in TaskIds : tasks[k].pc \in
          {"none", "start", "connect", "subscribe", "recv", "store", "ping",
           "backoff", "done", "cancelled"}
    /\ cli.pc \in {"boot", "idle", "stop_wait", "shutdown", "ended"}


----------------------------------------------------------------------------
\* Properties.

LiveTasksOf(n) == {k \in TaskIds : IsLive(tasks[k]) /\ tasks[k].chan = n}
OpenConnectionsOf(n) == {k \in TaskIds : tasks[k].ws_open /\ tasks[k].chan = n}
TasksOf(ts, n) == {k \in TaskIds : ts[k].chan = n}
EntriesOf(d, n) == {i \in DOMAIN d : d[i][1] = n}
InAttempt(t) == t.pc \in {"connect", "subscribe", "recv", "store", "ping"}
\* The session attempts of the lifetime that have failed.
FailuresSoFar(t) == IF InAttempt(t) THEN t.attempts - 1 ELSE t.attempts
Exhausted(t) == t.pc = "done" /\ t.exit \in {"max_retries", "max_connection_retries"}

\* C1: in every reachable state each channel name has at most one supervisor
\* task that has not finished, and at most one open session connection.
C1_AtMostOneSupervisor ==
    \A n \in Names :
        /\ Cardinality(LiveTasksOf(n)) <= 1
        /\ Cardinality(OpenConnectionsOf(n)) <= 1

\* A channel on its second supervisor, connected, after a start for it was
\* refused as a duplicate.
C1_Witness ==
    \E n \in Names : \E k1, k2 \in TaskIds :
        /\ k1 # k2 /\ tasks[k1].chan = n /\ tasks[k2].chan = n
        /\ IsFinished(tasks[k1]) /\ tasks[k2].ws_open
        /\ cli.last.log = "already"

\* A step of the main coroutine leaves every existing task as it is.
ByCli == \A k \in TaskIds : tasks[k].pc = "none" \/ tasks'[k] = tasks[k]

\* The step is a command that calls start_channel_scraping(c).
StartCalledOn(c) ==
    /\ ByCli
    /\ cli.pc \in {"boot", "idle"} /\ cli'.pc = "idle" /\ cli'.last.start = "True"
    /\ \/ cli'.last.cmd = "True" /\ (ResumeChannel(c) \/ AddChannel(c))
       \/ cli'.last.cmd = "-" /\ storage[c] = "active" /\ (Boot \/ ResumeAll)

\* C2: a start for a channel whose entry is still registered returns True,
\* creates no task and no event, and leaves the channel's task and event as
\* they were: one entry for the channel afterwards.
C2_SecondStartIsNoOp ==
    [][(cli'.last.start = "True" /\ ByCli) => \A c \in Names :
          (HasKey(active_tasks, c) /\ StartCalledOn(c)) =>
             /\ cli'.last.start = "True"
             /\ Get(active_tasks', c) = Get(active_tasks, c)
             /\ Get(stop_events', c) = Get(stop_events, c)
             /\ tasks'[Get(active_tasks, c)] = tasks[Get(active_tasks, c)]
             /\ event_set'[Get(stop_events, c)] = event_set[Get(stop_events, c)]
             /\ TasksOf(tasks', c) = TasksOf(tasks, c)
             /\ Cardinality(EntriesOf(active_tasks', c)) = 1
             /\ Cardinality(EntriesOf(stop_events', c)) = 1]_vars

\* A start has just been refused as a duplicate and the channel's supervisor
\* is still at work.
C2_Witness ==
    /\ cli.pc = "idle" /\ cli.last.start = "True" /\ cli.last.log = "already"
    /\ \E c \in Names : HasKey(active_tasks, c) /\ IsLive(tasks[Get(active_tasks, c)])

\* The step calls stop_channel_scraping(c).
StopCalledOn(c) ==
    \/ PauseChannel(c)
    \/ cli.pc = "shutdown" /\ Len(cli.todo) > 0 /\ Head(cli.todo) = c /\ ShutdownStep

\* C3: stop for a channel with no entry returns False and leaves both dicts,
\* the events, the running flag and every supervisor unchanged.
C3_StopUnsupervisedNoEffect ==
    [][\A c \in Names :
          (~HasKey(active_tasks, c) /\ StopCalledOn(c)) =>
             /\ cli'.last.stop = "False" /\ cli'.last.chan = c
             /\ UNCHANGED <<active_tasks, stop_events, event_set, tasks, running>>]_vars

\* stop has just returned False for a channel while another channel is being
\* supervised.
C3_Witness ==
    /\ cli.last.stop = "False"
    /\ ~HasKey(active_tasks, cli.last.chan)
    /\ \E c \in Names : c # cli.last.chan /\ HasKey(active_tasks, c)

\* C4: when stop_channel_scraping(c) is over for a channel that was registered
\* when it was called, c is in neither dict.
C4_StopRemovesEntry ==
    cli.last.stop \in {"True", "CancelledError"} =>
        /\ ~HasKey(active_tasks, cli.last.chan)
        /\ ~HasKey(stop_events, cli.last.chan)

\* C5: when shutdown is over the running flag is False, both dicts are empty
\* and no supervisor task is still running.
C5_ShutdownLeavesNothing ==
    cli.pc = "ended" =>
        /\ ~running
        /\ Len(active_tasks) = 0 /\ Len(stop_events) = 0
        /\ \A k \in TaskIds : ~IsLive(tasks[k])

\* C6: stop sets the channel's event before it waits on the task; a task is
\* cancelled only by the stop that waits for it, with its event set and the
\* grace period over; a supervisor that has exited is never cancelled.
C6_CooperativeThenForced ==
    [][/\ (cli.pc # "stop_wait" /\ cli'.pc = "stop_wait") =>
             /\ event_set'[cli'.task]
             /\ cli'.task = Get(active_tasks, cli'.chan)
             /\ cli'.elapsed = 0
       /\ \A k \in TaskIds :
             /\ (tasks[k].pc # "cancelled" /\ tasks'[k].pc = "cancelled") =>
                   /\ cli.pc = "stop_wait" /\ cli.task = k
                   /\ event_set[k]
                   /\ IsLive(tasks[k])
                   /\ cli.elapsed >= StopGrace
             /\ tasks[k].pc = "done" => tasks'[k].pc = "done"]_vars

\* A supervisor was cancelled by a stop and another one left on the event.
C6_Witness ==
    \E k1, k2 \in TaskIds :
        /\ tasks[k1].pc = "cancelled" /\ event_set[k1]
        /\ tasks[k2].pc = "done" /\ event_set[k2]

\* C7: when a session attempt returns because its stop event is set, the
\* supervisor ends: no further attempt, no backoff wait, and the channel's
\* entries are removed.
C7_ReturnOnCancelStops ==
    [][\A k \in TaskIds :
          /\ ( /\ tasks[k].pc \in {"subscribe", "recv", "store"}
               /\ event_set[k]
               /\ tasks'[k] # tasks[k]
               /\ tasks'[k].pc \notin {"backoff", "store", "cancelled"}
               /\ ~Exhausted(tasks'[k]) ) =>
                   /\ tasks'[k].pc = "done" /\ tasks'[k].exit = "returned"
                   /\ tasks'[k].attempts = tasks[k].attempts
                   /\ ~tasks'[k].ws_open
                   /\ ~HasKey(active_tasks', tasks[k].chan)
                   /\ ~HasKey(stop_events', tasks[k].chan)
          /\ tasks[k].pc = "done" => tasks'[k] = tasks[k]]_vars

\* A supervisor whose session returned with the stop event set.
C7_Witness ==
    \E k \in TaskIds :
        tasks[k].pc = "done" /\ tasks[k].exit = "returned" /\ event_set[k]

\* C8: a stop event set during a backoff wait ends the wait at once (no time
\* passes in it) and the supervisor ends without another session attempt.
C8_CancelDuringBackoff ==
    [][/\ \A k \in TaskIds :
             ( /\ tasks[k].pc = "backoff" /\ event_set[k]
               /\ tasks'[k] # tasks[k] /\ tasks'[k].pc # "cancelled" ) =>
                   /\ tasks'[k].pc = "done"
                   /\ tasks'[k].attempts = tasks[k].attempts
                   /\ ~HasKey(active_tasks', tasks[k].chan)
                   /\ ~HasKey(stop_events', tasks[k].chan)
       /\ (cli'.pc = "stop_wait" /\ tasks'[cli'.task].pc = "backoff") => cli'.susp = 0]_vars

\* A supervisor that left from its backoff wait on the stop event.
C8_Witness ==
    \E k \in TaskIds : tasks[k].pc = "done" /\ tasks[k].exit = "stop_in_backoff"

\* Every failure of the lifetime so far was an ordinary closure (both counters
\* went up each time), or a severe closure (only connection_retry_count did).
OnlyOrdinaryClosures(t) ==
    t.retry_count = FailuresSoFar(t) /\ t.connection_retry_count = FailuresSoFar(t)
OnlySevereClosures(t) ==
    t.retry_count = 0 /\ t.connection_retry_count = FailuresSoFar(t)

\* C9: a supervisor whose attempts all fail with an ordinary closure stops at
\* the 11th failure: never with more than 10 counted and still running, never
\* before the 11th attempt, and a stopped supervisor makes no further attempt.
C9_OrdinaryBudget ==
    [][\A k \in TaskIds :
          /\ IsLive(tasks'[k]) => tasks'[k].retry_count <= max_retries
          /\ ( /\ IsLive(tasks[k]) /\ OnlyOrdinaryClosures(tasks[k])
               /\ tasks'[k].pc = "done" /\ tasks'[k].exit = "max_retries" ) =>
                   /\ tasks'[k].attempts = max_retries + 1
                   /\ ~HasKey(active_tasks', tasks[k].chan)
          /\ tasks[k].pc = "done" => tasks'[k] = tasks[k]]_vars

\* The supervisor stopped for max_retries at its 11th attempt.
C9_Witness ==
    \E k \in TaskIds :
        tasks[k].pc = "done" /\ tasks[k].exit = "max_retries" /\ tasks[k].attempts = max_retries + 1

\* C10: a supervisor whose attempts all end with a severe closure retries after
\* each of the first 50 and stops at the 51st.
C10_SevereBudget ==
    [][\A k \in TaskIds :
          /\ (IsLive(tasks'[k]) /\ OnlySevereClosures(tasks'[k])) =>
                tasks'[k].connection_retry_count <= max_connection_retries
          /\ ( /\ IsLive(tasks[k]) /\ OnlySevereClosures(tasks[k])
               /\ tasks'[k].pc = "done" /\ tasks'[k].exit = "max_connection_retries" ) =>
                   tasks[k].attempts = max_connection_retries + 1
          /\ ( /\ tasks[k].pc = "backoff" /\ OnlySevereClosures(tasks[k])
               /\ tasks'[k] # tasks[k] ) =>
                   /\ tasks'[k].attempts = tasks[k].attempts + 1
                   /\ tasks[k].attempts <= max_connection_retries]_vars

\* The supervisor stopped for max_connection_retries at its 51st attempt.
C10_Witness ==
    \E k \in TaskIds :
        /\ tasks[k].pc = "done" /\ tasks[k].exit = "max_connection_retries"
        /\ tasks[k].attempts = max_connection_retries + 1


\* Seconds, in the unit the model keeps delays in.
Seconds(n) == n * Scale
\* The severe closures of the lifetime so far: the failures that did not count
\* on the generic track.
SevereSoFar(t) == FailuresSoFar(t) - t.retry_count
\* A step of task k that is a severe, or a generic-track, failure followed by a
\* backoff wait.
SevereFailure(k) ==
    /\ IsLive(tasks[k]) /\ tasks'[k].pc = "backoff" /\ tasks'[k] # tasks[k]
    /\ tasks'[k].retry_count = tasks[k].retry_count
    /\ tasks'[k].connection_retry_count = tasks[k].connection_retry_count + 1
GenericFailure(k) ==
    /\ IsLive(tasks[k]) /\ tasks'[k].pc = "backoff" /\ tasks'[k] # tasks[k]
    /\ tasks'[k].retry_count = tasks[k].retry_count + 1

\* min(1.5^min(k, 8), 30) in 1/256 s for k = 1..10: 1.5, 2.25, 3.375, 5.0625,
\* 7.59375, 11.390625, 17.0859375 and 25.62890625 seconds.
SevereTable == <<384, 576, 864, 1296, 1944, 2916, 4374, 6561, 6561, 6561>>

\* C11: at the k-th severe closure of a lifetime the backoff delay is
\* min(1.5^min(k,8), 30) seconds for k in 1..10 and 30 seconds for k in 11..50.
C11_SevereDelayByClosure ==
    [][\A k \in TaskIds :
          SevereFailure(k) =>
             tasks'[k].delay = IF SevereSoFar(tasks'[k]) <= Len(SevereTable)
                               THEN SevereTable[SevereSoFar(tasks'[k])]
                               ELSE Seconds(30)]_vars

GenericTable == <<2, 4, 8, 16, 32, 64, 128, 256, 512, 1024>>

\* C12: a failure on the generic track that leaves retry_count = n waits
\* 2 * 2^(n-1) seconds, uncapped: n is in 1..10 and the delays are 2, 4, ...,
\* 1024 seconds.
C12_GenericDelay ==
    [][\A k \in TaskIds :
          GenericFailure(k) =>
             /\ tasks'[k].retry_count \in 1..max_retries
             /\ tasks'[k].delay = Seconds(GenericTable[tasks'[k].retry_count])
             /\ tasks'[k].delay <= Seconds(1024)]_vars

\* The supervisor waits 1024 seconds after its tenth generic failure.
C12_Witness ==
    \E k \in TaskIds :
        /\ tasks[k].pc = "backoff" /\ tasks[k].retry_count = max_retries
        /\ tasks[k].delay = Seconds(1024)

\* C13: a failure that is followed by a backoff wait moves exactly one of the
\* two counters: the generic track leaves connection_retry_count unchanged and
\* the severe track leaves retry_count unchanged.
C13_TracksIndependent ==
    [][\A k \in TaskIds :
          (IsLive(tasks[k]) /\ tasks'[k].pc = "backoff" /\ tasks'[k] # tasks[k]) =>
             \/ /\ tasks'[k].retry_count = tasks[k].retry_count + 1
                /\ tasks'[k].connection_retry_count = tasks[k].connection_retry_count
             \/ /\ tasks'[k].retry_count = tasks[k].retry_count
                /\ tasks'[k].connection_retry_count = tasks[k].connection_retry_count + 1]_vars

\* C14: the attempt after one that handled a message to the end and then
\* failed starts with both counters at zero.
C14_ResetAfterHealthySession ==
    [][\A k \in TaskIds :
          (tasks[k].pc = "backoff" /\ tasks[k].cycled /\ tasks'[k].pc = "connect") =>
             /\ tasks'[k].retry_count = 0
             /\ tasks'[k].connection_retry_count = 0]_vars

\* C15: an attempt that does not get past the lookup opens no connection and
\* counts as a generic failure: retry_count goes up by one and the supervisor
\* waits the generic delay (or stops, the budget exhausted).
C15_LookupFailureIsGeneric ==
    [][\A k \in TaskIds :
          ( /\ tasks[k].pc \in {"start", "backoff"} /\ ~event_set[k] /\ running
            /\ tasks'[k] # tasks[k] /\ tasks'[k].pc # "connect" ) =>
               /\ ~tasks'[k].ws_open
               /\ \/ /\ tasks'[k].pc = "backoff"
                     /\ tasks'[k].retry_count = tasks[k].retry_count + 1
                     /\ tasks'[k].delay = Seconds(GenericTable[tasks'[k].retry_count])
                  \/ /\ tasks'[k].pc = "done" /\ tasks'[k].exit = "max_retries"]_vars

\* C16: the closure raised at the third consecutive ping timeout is put on the
\* severe track: connection_retry_count goes up, retry_count does not, and the
\* capped delay is applied.
C16_PingTimeoutIsSevere ==
    [][\A k \in TaskIds :
          ( /\ tasks[k].pc = "ping" /\ tasks'[k].pc = "backoff"
            /\ tasks'[k].consecutive_ping_failures = max_ping_failures ) =>
               /\ tasks'[k].retry_count = tasks[k].retry_count
               /\ tasks'[k].connection_retry_count = tasks[k].connection_retry_count + 1
               /\ tasks'[k].delay <= Seconds(30)
               /\ tasks'[k].delay = SevereDelay(tasks'[k].connection_retry_count)]_vars

\* C17: handle_websocket_message returns no event and writes nothing for every
\* message whose event is in IGNORED_EVENTS: no line of the overflow file, no
\* call of store_event and no event waiting to be stored is for an ignored name.
C17_IgnoredLeavesNoTrace ==
    /\ \A m \in Messages :
          m.event \in IGNORED_EVENTS =>
             handle_websocket_message(m) = Outcome(NoEvent, <<>>, FALSE)
    /\ \A i \in DOMAIN chat.overflow_log : chat.overflow_log[i].event \notin IGNORED_EVENTS
    /\ \A i \in DOMAIN chat.store_calls : chat.store_calls[i][2] \notin IGNORED_EVENTS
    /\ \A k \in TaskIds : tasks[k].event \notin IGNORED_EVENTS
    /\ chat.last.event \in IGNORED_EVENTS =>
          (Len(chat.overflow_log) + Len(chat.store_calls) < chat.received)

\* An ignored message was received and the session is back in its loop with
\* nothing written and nothing stored.
C17_Witness ==
    /\ chat.received = 1 /\ chat.last.event \in IGNORED_EVENTS
    /\ Len(chat.overflow_log) = 0 /\ Len(chat.store_calls) = 0
    /\ \E k \in TaskIds : tasks[k].pc \in {"recv", "ping"} /\ tasks[k].cycled

\* The step is the receipt of a message by task k.
Receives(k) == tasks[k].pc = "recv" /\ chat'.received = chat.received + 1

\* C18: a message whose event is in neither set adds exactly one line, the
\* message itself, to the overflow file, and store_event is not called for it.
C18_UnhandledLoggedOnce ==
    [][\A k \in TaskIds :
          (Receives(k) /\ chat'.last.event \notin (HANDLED_EVENTS \cup IGNORED_EVENTS)) =>
             /\ chat'.overflow_log = Append(chat.overflow_log, chat'.last)
             /\ chat'.store_calls = chat.store_calls
             /\ tasks'[k].pc # "store" /\ tasks'[k].event = NoEvent]_vars

\* A message with an event of neither set is the one line of the overflow
\* file, and nothing was stored.
C18_Witness ==
    /\ chat.received = 1
    /\ chat.last.event \notin (HANDLED_EVENTS \cup IGNORED_EVENTS)
    /\ chat.overflow_log = <<chat.last>>
    /\ Len(chat.store_calls) = 0

\* C19: the two sets are disjoint; a message with a handled event yields one
\* event of that name, nothing in the overflow file, and one call of
\* store_event for the session's channel with it.
C19_HandledStoredOnce ==
    [][/\ HANDLED_EVENTS \cap IGNORED_EVENTS = {}
       /\ \A k \in TaskIds :
             /\ (Receives(k) /\ chat'.last.event \in HANDLED_EVENTS) =>
                   /\ tasks'[k].pc = "store" /\ tasks'[k].event = chat'.last.event
                   /\ chat'.overflow_log = chat.overflow_log
                   /\ chat'.store_calls = chat.store_calls
             /\ (tasks[k].pc = "store" /\ tasks'[k] # tasks[k]) =>
                   /\ Len(chat'.store_calls) = Len(chat.store_calls) + 1
                   /\ chat'.store_calls[Len(chat'.store_calls)][1] = tasks[k].chan
                   /\ chat'.store_calls[Len(chat'.store_calls)][2] = tasks[k].event]_vars

\* The step is a call of store_event by task k that returned False.
StoreFailed(k) ==
    /\ tasks[k].pc = "store"
    /\ Len(chat'.store_calls) = Len(chat.store_calls) + 1
    /\ chat'.store_calls[Len(chat'.store_calls)][3] = "False"

\* C20: when store_event returns False the session stays open and goes on to
\* its next loop round; the counters are unchanged and the supervisor sees no
\* failure.
C20_StoreFailureKeepsSession ==
    [][\A k \in TaskIds :
          StoreFailed(k) =>
             /\ tasks'[k].ws_open
             /\ tasks'[k].pc \in {"recv", "ping"}
             /\ tasks'[k].retry_count = tasks[k].retry_count
             /\ tasks'[k].connection_retry_count = tasks[k].connection_retry_count
             /\ tasks'[k].attempts = tasks[k].attempts]_vars

\* A store failed and the session is still connected, in its loop.
C20_Witness ==
    /\ Len(chat.store_calls) = 1 /\ chat.store_calls[1][3] = "False"
    /\ \E k \in TaskIds :
          tasks[k].ws_open /\ tasks[k].pc \in {"recv", "ping"} /\ tasks[k].cycled

\* C21: a message that cannot be decoded or classified is dropped and the
\* session goes on: after the receipt of any message the session is in its
\* loop (or storing the event, or has returned on the stop event), still
\* connected, and neither retry counter has changed.
C21_BadMessageSwallowed ==
    [][\A k \in TaskIds :
          Receives(k) =>
             /\ \/ tasks'[k].pc \in {"recv", "ping", "store"} /\ tasks'[k].ws_open
                \/ tasks'[k].pc = "done" /\ tasks'[k].exit = "returned"
             /\ tasks'[k].pc # "done" =>
                   /\ tasks'[k].retry_count = tasks[k].retry_count
                   /\ tasks'[k].connection_retry_count = tasks[k].connection_retry_count
                   /\ tasks'[k].attempts = tasks[k].attempts]_vars

\* C22: store_event is called for the handled events in the order their
\* messages were received, once each, and while an event waits to be stored
\* no further message has been received.
C22_StoreInReceiveOrder ==
    /\ \A i, j \in DOMAIN chat.store_calls :
          i < j => chat.store_calls[i][4] < chat.store_calls[j][4]
    /\ \A i \in DOMAIN chat.store_calls : chat.store_calls[i][4] \in 1..chat.received
    /\ \A k \in TaskIds :
          (chat.watch /\ tasks[k].pc = "store") =>
             /\ tasks[k].seq = chat.received
             /\ \A i \in DOMAIN chat.store_calls : chat.store_calls[i][4] < tasks[k].seq

\* Two handled events were stored, the first message's before the second's.
C22_Witness ==
    /\ Len(chat.store_calls) = 2
    /\ chat.store_calls[1][4] = 1 /\ chat.store_calls[2][4] = 2
    /\ chat.store_calls[1][2] \in HANDLED_EVENTS

\* C23: a session whose stop event is set while it waits in recv leaves the
\* wait after at most RecvTimeout seconds and then returns: it sends no ping
\* and starts no receive (a message that arrived in the wait is stored first),
\* and the supervisor ends with the channel's entries removed.
C23_CancelDuringReceive ==
    [][/\ \A k \in TaskIds :
             ( /\ tasks[k].pc \in {"recv", "store"} /\ event_set[k]
               /\ tasks'[k] # tasks[k]
               /\ tasks'[k].pc \notin {"backoff", "cancelled"}
               /\ ~Exhausted(tasks'[k]) ) =>
                   \/ tasks[k].pc = "recv" /\ tasks'[k].pc = "store"
                   \/ /\ tasks'[k].pc = "done" /\ tasks'[k].exit = "returned"
                      /\ tasks'[k].attempts = tasks[k].attempts
                      /\ ~HasKey(active_tasks', tasks[k].chan)
       /\ (cli'.pc = "stop_wait" /\ tasks'[cli'.task].pc = "recv") =>
             cli'.susp <= RecvTimeout]_vars

\* A stop has waited the whole second of a receive wait and the session has
\* returned.
C23_Witness ==
    /\ cli.pc = "stop_wait" /\ cli.elapsed = RecvTimeout
    /\ tasks[cli.task].pc = "done" /\ tasks[cli.task].exit = "returned"

\* C24: a supervisor that is not inside a session attempt holds no open
\* connection: not before its first attempt, not in a backoff wait, not when
\* it has ended (returned, stopped, exhausted or cancelled).
C24_NoConnectionOutsideAttempt ==
    \A k \in TaskIds :
        tasks[k].pc \in {"none", "start", "connect", "backoff", "done", "cancelled"} =>
            ~tasks[k].ws_open

\* A supervisor in a backoff wait after a closure (so a connection had been
\* opened), and another one cancelled by a stop: neither holds a connection.
C24_Witness ==
    \E k1, k2 \in TaskIds :
        /\ tasks[k1].pc = "backoff" /\ tasks[k1].connection_retry_count = 1
        /\ ~tasks[k1].ws_open
        /\ tasks[k2].pc = "cancelled" /\ ~tasks[k2].ws_open

\* C25: every connection gets one subscribe message, sent before the first
\* receive or ping, and its channel field is "chatrooms.<id>.v2" for the id the
\* lookup resolved ("chatrooms.12345.v2" for 12345).
C25_OneSubscribePerConnection ==
    /\ ChatroomId["foo"] = 12345
    /\ subscribe_to_chatroom("foo").data.channel = "chatrooms.12345.v2"
    /\ \A i \in DOMAIN chat.sent :
          /\ Len(chat.sent[i]) <= 1
          /\ \A j \in DOMAIN chat.sent[i] :
                /\ chat.sent[i][j].event = "pusher:subscribe"
                /\ \E c \in Names :
                      chat.sent[i][j].data.channel
                          = "chatrooms." \o ToString(ChatroomId[c]) \o ".v2"
    /\ \A k \in TaskIds :
          chat.watch =>
             /\ tasks[k].pc = "subscribe" => Len(chat.sent[Len(chat.sent)]) = 0
             /\ tasks[k].pc \in {"recv", "store", "ping"} =>
                   chat.sent[Len(chat.sent)] = <<subscribe_to_chatroom(tasks[k].chan)>>

\* The session is on its second connection, has received a message on it, and
\* each connection got its one subscribe message.
C25_Witness ==
    /\ chat.sent = << <<subscribe_to_chatroom("foo")>>, <<subscribe_to_chatroom("foo")>> >>
    /\ \E k \in TaskIds :
          tasks[k].pc \in {"recv", "ping"} /\ tasks[k].chan = "foo" /\ tasks[k].cycled

\* [a-z0-9_], as far as Chars goes.
SafeChars == {"f", "b", "o", "a", "r", "i", "0", "_"}
IsSafe(s) == \A i \in DOMAIN s : s[i] \in SafeChars

\* C26: sanitize_channel_name returns only characters of [a-z0-9_] for every
\* name ("Foo_Bar" gives "foo_bar"), and each storage operation uses the
\* sanitized name, and nothing else, as the value of the name column and as
\* what follows the prefix in a table name.
C26_SanitizedKeys ==
    /\ cli.last.op # "-" => cli.last.name = cli.chan
    /\ IsSafe(sanitize_channel_name(cli.chan))
    /\ sanitize_channel_name(Foo_Bar) = foo_bar
    /\ \A key \in cli.last.keys : key = sanitize_channel_name(cli.last.name) /\ IsSafe(key)
    /\ \A t \in cli.last.tables :
          /\ Head(t) = CHANNEL_TABLE_PREFIX
          /\ Tail(t) = sanitize_channel_name(cli.last.name)
          /\ IsSafe(Tail(t))
    /\ \A key \in DOMAIN storage : IsSafe(key)

\* "Foo_Bar" was added and paused, and an event was then stored for it in
\* the table kickchat_foo_bar.
C26_Witness ==
    /\ cli.last.op = "store_event" /\ cli.last.name = Foo_Bar /\ cli.last.result = "True"
    /\ cli.last.keys = {foo_bar}
    /\ cli.last.tables = {<<CHANNEL_TABLE_PREFIX>> \o foo_bar}
    /\ DOMAIN storage = {foo_bar} /\ storage[foo_bar] = "paused"

C28_RefusalDoesNotAbort ==
    [][( /\ ByCli /\ cli.pc = "idle" /\ cli'.pc = "idle"
         /\ Len(cli'.last.listed) > 0 /\ cli'.last.cmd = "True" ) =>
            /\ cli'.last.listed \in AllReports
            /\ Len(cli'.last.resumed) = Len(cli'.last.listed)
            /\ \A i \in DOMAIN cli'.last.listed :
                  /\ cli'.last.resumed[i][1] = cli'.last.listed[i]
                  /\ cli'.last.resumed[i][2] = "True" =>
                        /\ HasKey(active_tasks', cli'.last.listed[i])
                        /\ storage'[cli'.last.listed[i]] = "active"
                  /\ cli'.last.resumed[i][2] = "False" =>
                        /\ storage'[cli'.last.listed[i]] = storage[cli'.last.listed[i]]
                        /\ Get(active_tasks', cli'.last.listed[i])
                              = Get(active_tasks, cli'.last.listed[i])]_vars

\* The first channel's resume was refused and the second channel was resumed
\* and is supervised.
C28_Witness ==
    /\ Len(cli.last.listed) = 2 /\ cli.last.cmd = "True"
    /\ Len(cli.last.resumed) = 2
    /\ cli.last.resumed[1][2] = "False" /\ cli.last.resumed[2][2] = "True"
    /\ HasKey(active_tasks, cli.last.resumed[2][1])
    /\ storage[cli.last.resumed[2][1]] = "active"

\* C29: the step in which one channel's supervisor uses up a retry budget and
\* stops leaves every other supervisor (its counters and its session), every
\* cancellation signal, the other channels' entries, the running flag, the
\* main coroutine and the channels table as they were, and the supervisor
\* ends by returning.
C29_ExhaustionIsLocal ==
    [][\A k \in TaskIds :
          (IsLive(tasks[k]) /\ Exhausted(tasks'[k])) =>
             /\ \A j \in TaskIds \ {k} : tasks'[j] = tasks[j]
             /\ event_set' = event_set
             /\ \A c \in Names \ {tasks[k].chan} :
                   /\ Get(active_tasks', c) = Get(active_tasks, c)
                   /\ Get(stop_events', c) = Get(stop_events, c)
             /\ running /\ running'
             /\ cli' = cli
             /\ storage' = storage
             /\ tasks'[k].pc = "done" /\ tasks'[k].chan = tasks[k].chan]_vars

\* One supervisor has stopped for a used-up budget while the other channel's
\* session is connected and receiving, its entries in place.
C29_Witness ==
    \E k, j \in TaskIds :
        /\ Exhausted(tasks[k])
        /\ tasks[j].pc = "recv" /\ tasks[j].ws_open /\ tasks[j].chan # tasks[k].chan
        /\ Get(active_tasks, tasks[j].chan) = j /\ Get(stop_events, tasks[j].chan) = j
        /\ running

\* C30: an entry points to a supervisor that has not ended, the two
\* dictionaries hold the same channels, and a channel whose supervisor has
\* ended on its own (budget used up, or the session returned) has neither its
\* task entry nor its cancellation signal and is listed as not scraping.
C30_EntryOnlyWhileSupervised ==
    /\ \A c \in Names :
          /\ HasKey(active_tasks, c) <=> HasKey(stop_events, c)
          /\ HasKey(active_tasks, c) =>
                /\ Get(stop_events, c) = Get(active_tasks, c)
                /\ IsLive(tasks[Get(active_tasks, c)])
                /\ tasks[Get(active_tasks, c)].chan = c
    /\ \A k \in TaskIds :
          tasks[k].pc = "done" =>
             /\ ~HasKey(active_tasks, tasks[k].chan)
             /\ ~HasKey(stop_events, tasks[k].chan)
             /\ ~Scraping(tasks[k].chan)

\* One supervisor has ended for a used-up budget and the other because its
\* session returned: neither channel has an entry left.
C30_Witness ==
    /\ \E k, j \in TaskIds :
          /\ Exhausted(tasks[k])
          /\ tasks[j].pc = "done" /\ tasks[j].exit = "returned"
    /\ active_tasks = <<>> /\ stop_events = <<>>
    /\ \A c \in Names : ~Scraping(c)

\* C31: once the running flag is False it stays False and no supervisor
\* begins a session attempt: a supervisor at the head of its loop (a task that
\* has not run yet, or one whose backoff wait ends) exits without a lookup and
\* without a connection, and no task is created.
C31_NoAttemptAfterShutdown ==
    [][~running =>
          /\ ~running'
          /\ \A k \in TaskIds :
                /\ tasks'[k].attempts = tasks[k].attempts
                /\ tasks[k].pc = "none" => tasks'[k].pc = "none"
                /\ ( /\ tasks[k].pc \in {"start", "backoff"}
                     /\ tasks'[k] # tasks[k] /\ tasks'[k].pc # "cancelled" ) =>
                         /\ tasks'[k].pc = "done"
                         /\ ~tasks'[k].ws_open
                         /\ ~HasKey(active_tasks', tasks[k].chan)
                /\ tasks'[k].pc = "connect" => tasks[k].pc = "connect"]_vars

\* After the flag fell, one supervisor left from a backoff wait that no stop
\* event ended, and a task that had not run yet left without an attempt.
C31_Witness ==
    /\ ~running
    /\ \E k1, k2 \in TaskIds :
          /\ tasks[k1].pc = "done" /\ tasks[k1].exit = "loop_exit"
          /\ ~event_set[k1] /\ tasks[k1].attempts = 1
          /\ tasks[k2].pc = "done" /\ tasks[k2].exit = "loop_exit"
          /\ ~event_set[k2] /\ tasks[k2].attempts = 0

\* C32: while a supervisor is at work neither retry_count nor
\* connection_retry_count goes down, and neither moves by more than one in a
\* step; both are zero when the supervisor leaves because its session
\* returned.
C32_CountersNeverDecrease ==
    [][\A k \in TaskIds :
          (IsLive(tasks[k]) /\ tasks'[k] # tasks[k]) =>
             /\ IsLive(tasks'[k]) =>
                   /\ tasks'[k].retry_count \in
                         {tasks[k].retry_count, tasks[k].retry_count + 1}
                   /\ tasks'[k].connection_retry_count \in
                         {tasks[k].connection_retry_count, tasks[k].connection_retry_count + 1}
             /\ (tasks'[k].pc = "done" /\ tasks'[k].exit = "returned") =>
                   /\ tasks'[k].retry_count = 0
                   /\ tasks'[k].connection_retry_count = 0]_vars

\* A supervisor in its sixth attempt after two generic failures, one ordinary
\* closure and two severe closures: retry_count 3, connection_retry_count 3.
C32_Witness ==
    \E k \in TaskIds :
        /\ tasks[k].pc = "recv" /\ tasks[k].attempts = 6
        /\ tasks[k].retry_count = 3 /\ tasks[k].connection_retry_count = 3

\* C33: consecutive_ping_failures is in 0..3 and below 3 while the session
\* runs; it moves only at the end of a wait for a pong: a pong sets it to 0 and
\* resets the keepalive clock, a timeout adds one and, below 3, resets the
\* clock too; the timeout that makes it 3 ends the session with a closure
\* (connection_retry_count goes up, or the supervisor stops on a budget), and
\* nothing else makes it 3.
C33_PingFailureCounter ==
    [][\A k \in TaskIds :
          LET f == tasks[k].consecutive_ping_failures
              g == tasks'[k].consecutive_ping_failures
          IN  /\ g \in 0..max_ping_failures
              /\ InAttempt(tasks'[k]) => g < max_ping_failures
              /\ tasks'[k].pc = "recv" => ~tasks'[k].ping_due
              /\ (tasks[k].pc # "ping" /\ g # f) => g = 0
              /\ (tasks[k].pc = "ping" /\ tasks'[k] # tasks[k]) =>
                    \/ tasks'[k].pc = "recv" /\ g = 0
                    \/ tasks'[k].pc = "recv" /\ g = f + 1
                    \/ /\ tasks'[k].pc = "backoff" /\ g \in {f, max_ping_failures}
                       /\ tasks'[k].connection_retry_count
                             = tasks[k].connection_retry_count + 1
                    \/ tasks'[k].pc \in {"done", "cancelled"} /\ g = 0
              /\ g = max_ping_failures =>
                    /\ tasks'[k].pc = "backoff"
                    /\ tasks[k].pc = "ping" => f = max_ping_failures - 1]_vars

\* The first session attempt was ended by its third consecutive ping timeout:
\* the supervisor is in the backoff wait that follows.
C33_Witness ==
    \E k \in TaskIds :
        /\ tasks[k].pc = "backoff" /\ tasks[k].attempts = 1
        /\ tasks[k].consecutive_ping_failures = max_ping_failures

\* C34: add_channel returns True only when the channel is in the table and a
\* supervisor for it is registered; when it returns False because the lookup
\* or the insertion failed, the table and the registry are as before and no
\* supervisor was started.
C34_AddTrueMeansSupervised ==
    [][(ByCli /\ cli.pc = "idle" /\ cli'.pc = "idle") =>
          \A c \in Names :
             AddChannel(c) =>
                /\ cli'.last.cmd = "True" =>
                      /\ storage'[c] # "absent"
                      /\ HasKey(active_tasks', c) /\ HasKey(stop_events', c)
                /\ cli'.last.cmd = "False" =>
                      UNCHANGED <<storage, active_tasks, stop_events, tasks>>]_vars

\* The most session attempts of one lifetime: ten retried failures of the
\* generic track, fifty retried severe closures, and the attempt whose failure
\* goes over a budget.
MaxAttempts == max_retries + max_connection_retries + 1

\* C35: with no stop and no cancellation a supervisor makes at most 61 session
\* attempts, whatever the failures and their order; the failure of the 61st
\* ends it; and a supervisor that keeps failing (it is outside a session again
\* and again) ends: from some point on its task is over, or was never made.
C35_FailingSupervisorTerminates ==
    /\ [](\A k \in TaskIds :
            /\ tasks[k].attempts <= MaxAttempts
            /\ (tasks[k].attempts = MaxAttempts /\ ~InAttempt(tasks[k])) =>
                   tasks[k].pc = "done")
    /\ \A k \in TaskIds :
          []<>(~InAttempt(tasks[k])) => <>[](tasks[k].pc \in {"none", "done"})

\* The 61st attempt failed and the supervisor stopped on a used-up budget,
\* with no stop event set.
C35_Witness ==
    \E k \in TaskIds :
        /\ Exhausted(tasks[k]) /\ tasks[k].attempts = MaxAttempts
        /\ ~event_set[k] /\ running

\* A session of task k is under way for the row key of the channels table.
IngestsFor(k, key) ==
    /\ InAttempt(tasks[k]) /\ sanitize_channel_name(tasks[k].chan) = key

\* C36: of two typed names with the same sanitized name at most one has an
\* entry in active_tasks, and at most one session is under way for a row of
\* the channels table.
C36_OneSupervisorPerStoredChannel ==
    /\ \A n1, n2 \in CommandNames :
          ( /\ n1 # n2
            /\ sanitize_channel_name(n1) = sanitize_channel_name(n2) ) =>
               ~(HasKey(active_tasks, n1) /\ HasKey(active_tasks, n2))
    /\ \A key \in DOMAIN storage :
          Cardinality({k \in TaskIds : IngestsFor(k, key)}) <= 1

\* start_channel_scraping(c) would create a task: c is not in active_tasks.
WouldLaunch(c) == ~HasKey(active_tasks, c)

SupervisesRow(k, key) ==
    /\ IsLive(tasks[k]) /\ sanitize_channel_name(tasks[k].chan) = key

\* C38: when no command is in progress, a channel whose row is marked paused
\* has no entry in active_tasks under any of its names and no supervisor or
\* session at work.
C38_PausedMeansNotSupervised ==
    cli.pc = "idle" =>
        \A key \in DOMAIN storage :
            storage[key] = "paused" =>
               /\ \A n \in CommandNames :
                     sanitize_channel_name(n) = key => ~HasKey(active_tasks, n)
               /\ \A k \in TaskIds : ~SupervisesRow(k, key)

\* How far a supervisor whose stop event is set still has to go: the awaits
\* of a session attempt in the order of listen_to_chat, then the ways out.
Rank(t) ==
    CASE t.pc = "start" -> 0
      [] t.pc = "connect" -> 1
      [] t.pc = "subscribe" -> 2
      [] t.pc = "ping" -> 3
      [] t.pc = "recv" -> 4
      [] t.pc = "store" -> 5
      [] t.pc = "backoff" -> 6
      [] OTHER -> 7

\* C39: a stop event that is set stays set, and from then on the session only
\* moves forward: a wait for a pong is followed by one receive, a receive by
\* the store_event call for its message or by the end of the session, a
\* store_event call by the end of the session.  So after the signal at most
\* one event is passed to store_event and no receive follows it.
C39_AtMostOneStoreAfterSignal ==
    [][\A k \in TaskIds :
          (event_set[k] /\ IsLive(tasks[k])) =>
             /\ event_set'[k]
             /\ tasks'[k] # tasks[k] =>
                   /\ Rank(tasks'[k]) > Rank(tasks[k])
                   /\ tasks[k].pc = "store" =>
                         tasks'[k].pc \in {"done", "backoff", "cancelled"}
                   /\ tasks'[k].pc = "store" => tasks[k].pc = "recv"
                   /\ tasks'[k].attempts = tasks[k].attempts]_vars

\* A stop found the session in its receive wait; a message came within the
\* second and its event is being passed to store_event.
C39_Witness ==
    /\ cli.pc = "stop_wait" /\ cli.elapsed = RecvTimeout
    /\ event_set[cli.task] /\ tasks[cli.task].pc = "store"

\* The session of t is suspended in its receive loop: in the wait for a pong,
\* in the receive wait, or in store_event.
InReceiveLoop(t) == t.pc \in {"ping", "recv", "store"}

\* C40: a stop never cancels a task whose session is suspended in its receive
\* loop: the session sees the stop event and the supervisor ends within the
\* StopGrace seconds stop waits.
C40_NoForcedCancelInReceiveLoop ==
    [][\A k \in TaskIds :
          (tasks'[k].pc = "cancelled" /\ tasks[k].pc # "cancelled") =>
             ~InReceiveLoop(tasks[k])]_vars

====
